---- MODULE Spec2Model ----
(***************************************************************************)
(* Scrollback-and-viewport layer of the terminal UI.                       *)
(*                                                                         *)
(* Part 1: the coding-agent ScrollLayout                                   *)
(* (packages/coding-agent/src/modes/interactive/components/                *)
(*  command-palette.ts, class ScrollLayout): specifications Spec (the      *)
(*  layout as a state machine) and SpecSel (one highlighted frame for      *)
(*  every selection of a grid).                                            *)
(* Part 2: the SGR mouse decoder (packages/tui/src/mouse.ts): SpecMouse.   *)
(* Part 3: the sticky header overlay (sticky-header.ts): SpecSticky.       *)
(* Part 4: the tui ScrollLayout (packages/tui, scroll-layout.ts): SpecTui, *)
(*  two layouts over the same content, one with a viewport-aware child     *)
(*  and one with a render-only child, driven by the same calls.            *)
(*                                                                         *)
(* Part 5: the output filter of a block (packages/coding-agent,            *)
(*  utils/block-output-filter.ts) and the line search (block-search.ts):   *)
(*  SpecFilter and SpecSearch, one call for every input.                   *)
(*                                                                         *)
(* Each specification moves its own variables and leaves the others at     *)
(* Idle.                                                                   *)
(*                                                                         *)
(* A display line is a sequence of cells.  A cell is an integer: a visible *)
(* character, or one of the two styling markers INVERSE (ESC[7m) and       *)
(* RESET (ESC[0m), which occupy no column.                                 *)
(***************************************************************************)
EXTENDS Integers, Sequences, FiniteSets, TLC

\* ------------------------------------------------------------------ bounds
MaxOutput == 3      \* most lines the scrollable child renders
MaxFixed == 2       \* most lines the fixed child renders
MaxRows == 2        \* largest terminal row count
MaxScroll == 2      \* largest |lines| passed to scrollBy
MaxPages == 1       \* largest |pages| passed to scrollByPage
MaxSelRow == 2      \* SpecSel: selection rows range over -1..MaxSelRow
MaxSelCol == 2      \* SpecSel: selection columns range over -1..MaxSelCol
MaxCode == 127      \* SpecMouse: largest button code of a received sequence
MaxCoord == 3       \* SpecMouse: largest protocol coordinate X, Y
MaxLines == 3       \* SpecSticky: most lines, and largest top, height, index, limit
MaxTop == 1         \* SpecTui: largest viewport.top passed to renderViewport

\* --------------------------------------------------------------- constants
INVERSE == 7        \* "\x1b[7m"
RESET == 0          \* "\x1b[0m"
EMPTY_LINE == << >>

Max(a, b) == IF a >= b THEN a ELSE b
Min(a, b) == IF a <= b THEN a ELSE b

clamp(value, min, max) == Max(min, Min(value, max))

\* Array.prototype.slice(start, end) on a sequence, 0-based, end exclusive.
slice(seq, start, end) ==
    LET len == Len(seq)
        from == IF start < 0 THEN Max(len + start, 0) ELSE Min(start, len)
        to == IF end < 0 THEN Max(len + end, 0) ELSE Min(end, len)
    IN  IF from >= to THEN << >> ELSE SubSeq(seq, from + 1, to)

\* ------------------------------------------------------ the child components
\* Row i (1-based) of the scrollable child: 1 or 2 visible cells that name
\* the row, so that two different rows never render alike.
OutLine(i) == [c \in 1..(1 + (i % 2)) |-> 100 + 10 * i + c]
\* What output.render(width) returns when the child holds n rows.
OutputLines(n) == [i \in 1..n |-> OutLine(i)]
\* Row j of the fixed child (editor, footer).
FixedLine(j) == << 200 + j >>
FixedLines(f) == [j \in 1..f |-> FixedLine(j)]

\* --------------------------------------------------------------- selection
Null == << >>
Some(sel) == << sel >>
Selection(startRow, startCol, endRow, endCol) ==
    [startRow |-> startRow, startCol |-> startCol, endRow |-> endRow, endCol |-> endCol]
\* The selections handed to setOutputSelection: part of the first visible row,
\* two rows, the same two rows given end first, and one whose rows and columns
\* lie outside every frame on both sides.
SelectionInputs ==
    { Selection(0, 0, 0, 1), Selection(0, 1, 1, 1), Selection(1, 1, 0, 1),
      Selection(-1, -1, 9, 9) }

\* pi-tui: the number of columns a line occupies; styling takes none.
visibleWidth(line) == Len(SelectSeq(line, LAMBDA c : c # INVERSE /\ c # RESET))

\* pi-tui: the cells of columns [startCol, startCol + length) of a line.
sliceByColumn(line, startCol, length) ==
    slice(SelectSeq(line, LAMBDA c : c # INVERSE /\ c # RESET), startCol, startCol + length)

\* Faulty variant: the columns are used as given.
highlightLineUnclamped(line, startCol, endCol) ==
    IF startCol >= endCol THEN line
    ELSE sliceByColumn(line, 0, startCol) \o << INVERSE >>
         \o sliceByColumn(line, startCol, endCol - startCol) \o << RESET >>
         \o sliceByColumn(line, endCol, visibleWidth(line) - endCol)

highlightLine(line, startCol, endCol) ==
    LET lineWidth == visibleWidth(line)
        safeStart == clamp(startCol, 0, lineWidth)
        safeEnd == clamp(endCol, 0, lineWidth)
    IN  IF safeStart >= safeEnd THEN line
        ELSE sliceByColumn(line, 0, safeStart) \o << INVERSE >>
             \o sliceByColumn(line, safeStart, safeEnd - safeStart) \o << RESET >>
             \o sliceByColumn(line, safeEnd, lineWidth - safeEnd)

\* Returns Null or Some(selection), as the code returns null or a selection.
normalizeOutputSelection(selection, lineCount) ==
    IF lineCount <= 0 THEN Null
    ELSE LET swap == \/ selection.startRow > selection.endRow
                     \/ /\ selection.startRow = selection.endRow
                        /\ selection.startCol > selection.endCol
             startRow == IF swap THEN selection.endRow ELSE selection.startRow
             endRow == IF swap THEN selection.startRow ELSE selection.endRow
             startCol == IF swap THEN selection.endCol ELSE selection.startCol
             endCol == IF swap THEN selection.startCol ELSE selection.endCol
         IN  Some([startRow |-> clamp(startRow, 0, lineCount - 1),
                   startCol |-> startCol,
                   endRow |-> clamp(endRow, 0, lineCount - 1),
                   endCol |-> endCol])

\* Row `index` is 0-based, as in lines.map((line, index) => ...).
applyOutputSelection(outputSelection, lines) ==
    IF outputSelection = Null THEN lines
    ELSE IF Len(lines) = 0 THEN lines
    ELSE LET normalized == normalizeOutputSelection(outputSelection[1], Len(lines))
         IN  IF normalized = Null THEN lines
             ELSE LET selection == normalized[1]
                  IN  [k \in 1..Len(lines) |->
                         LET index == k - 1
                             line == lines[k]
                         IN  IF index < selection.startRow \/ index > selection.endRow
                             THEN line
                             ELSE highlightLine(
                                    line,
                                    IF index = selection.startRow
                                        THEN selection.startCol ELSE 0,
                                    IF index = selection.endRow
                                        THEN selection.endCol ELSE visibleWidth(line))]

\* ------------------------------------------------------------ ScrollLayout
VARIABLES
    layout,     \* the ScrollLayout object: a record of its fields
    outN,       \* rows the scrollable child returned to the latest render
    fixN,       \* rows the fixed child returned to the latest render
    rows,       \* tui.terminal.rows as read by the latest render
    lastOp,     \* the operation performed by the latest step
    rerender,   \* "same" or "grown": the latest two steps were renders, the
                \* second with the same inputs or with only rows appended to
                \* the scrollable child; "no" otherwise
    returned    \* what render returned, when the latest step was a render

VARIABLES
    selIn,      \* SpecSel: the selection and the frame's inputs
    selOut,     \* SpecSel: the frame render returned for them
    mouseIn,    \* SpecMouse: how the received chunk was built
    mouseData,  \* SpecMouse: the received chunk
    mouseOut,   \* SpecMouse: what parseMouseEvent returned for it
    stickyIn,   \* SpecSticky: the arguments of applyStickyHeader
    stickyOut,  \* SpecSticky: what it returned
    tuiPair,    \* SpecTui: the two layouts, by kind of scrollable child
    tuiOp,      \* SpecTui: the latest call
    tuiFrame,   \* SpecTui: the arguments and results of the latest render call
    filterIn,   \* SpecFilter: the arguments of applyOutputFilter
    filterOut,  \* SpecFilter: what it returned, and what the component shows
    searchIn,   \* SpecSearch: the arguments of searchTextByLine
    searchOut,  \* SpecSearch: what it returned
    palette,    \* SpecPalette: the CommandPaletteComponent
    paletteKey, \* SpecPalette: the latest key given to handleInput
    paletteCalls, \* SpecPalette: the callbacks made for that key
    actionPalette, \* SpecActions: the BlockActionPaletteComponent
    actionKey,  \* SpecActions: the latest key given to handleInput
    actionCalls, \* SpecActions: the callbacks made for that key
    chipsIn,    \* SpecChips: the chips set and the width rendered for
    chipsOut,   \* SpecChips: what render returned
    vim,        \* SpecVim: the VimEditor
    vimKey,     \* SpecVim: the latest key given to handleInput
    vimTyped,   \* SpecVim: the number of characters typed so far
    vimHandled, \* SpecVim: the number of keys handled so far
    tool,       \* SpecEditDiff, SpecToolOutput: the ToolExecutionComponent
    toolFlight, \* the edit-diff computations in flight
    toolStarted,\* the number of edit-diff computations started so far
    toolOp,     \* the latest operation on the component
    blockSearch,    \* SpecBlockSearch: the BlockSearchComponent and its timers
    blockSearchOp   \* SpecBlockSearch: the latest key, "tick" or "timer"

scrollVars == << layout, outN, fixN, rows, lastOp, rerender, returned >>
selVars == << selIn, selOut >>
mouseVars == << mouseIn, mouseData, mouseOut >>
stickyVars == << stickyIn, stickyOut >>
tuiVars == << tuiPair, tuiOp, tuiFrame >>
filterVars == << filterIn, filterOut >>
searchVars == << searchIn, searchOut >>
paletteVars == << palette, paletteKey, paletteCalls >>
actionVars == << actionPalette, actionKey, actionCalls >>
chipsVars == << chipsIn, chipsOut >>
vimVars == << vim, vimKey, vimTyped, vimHandled >>
toolVars == << tool, toolFlight, toolStarted, toolOp >>
blockSearchVars == << blockSearch, blockSearchOp >>
\* The variables of the specifications of the palettes, the chips, the
\* editor and the tool block.
otherVars == << paletteVars, actionVars, chipsVars, vimVars, toolVars, blockSearchVars >>
vars ==
    << scrollVars, selVars, mouseVars, stickyVars, tuiVars, filterVars, searchVars,
       otherVars >>

\* The value of a variable that the running specification does not use.
Idle == << >>
SelIdle == selIn = Idle /\ selOut = Idle
MouseIdle == mouseIn = Idle /\ mouseData = Idle /\ mouseOut = Idle
StickyIdle == stickyIn = Idle /\ stickyOut = Idle
TuiIdle == tuiPair = Idle /\ tuiOp = "idle" /\ tuiFrame = Idle
FilterIdle == filterIn = Idle /\ filterOut = Idle
SearchIdle == searchIn = Idle /\ searchOut = Idle
PaletteIdle == palette = Idle /\ paletteKey = "idle" /\ paletteCalls = Idle
ActionIdle == actionPalette = Idle /\ actionKey = "idle" /\ actionCalls = Idle
ChipsIdle == chipsIn = Idle /\ chipsOut = Idle
VimIdle == vim = Idle /\ vimKey = "idle" /\ vimTyped = 0 /\ vimHandled = 0
ToolIdle == tool = Idle /\ toolFlight = {} /\ toolStarted = 0 /\ toolOp = "idle"
BlockSearchIdle == blockSearch = Idle /\ blockSearchOp = "idle"
OtherIdle ==
    PaletteIdle /\ ActionIdle /\ ChipsIdle /\ VimIdle /\ ToolIdle /\ BlockSearchIdle
ScrollIdle ==
    /\ layout = Idle /\ outN = 0 /\ fixN = 0 /\ rows = 0
    /\ lastOp = "idle" /\ rerender = "no" /\ returned = Idle

\* The field initializers and the constructor.
NewScrollLayout ==
    [enabled |-> FALSE,
     scrollOffset |-> 0,
     lastOutputLineCount |-> 0,
     lastAvailableHeight |-> 0,
     lastMaxScrollOffset |-> 0,
     lastVisibleOutputLines |-> << >>,
     lastVisibleFixedLines |-> << >>,
     outputSelection |-> Null]

setOutputSelection(self, selection) == [self EXCEPT !.outputSelection = selection]

\* Faulty variant: the scroll position survives a toggle.
setEnabledKeepingOffset(self, value) ==
    IF self.enabled = value THEN self
    ELSE [self EXCEPT !.enabled = value,
                      !.lastOutputLineCount = 0,
                      !.lastAvailableHeight = 0,
                      !.lastMaxScrollOffset = 0,
                      !.outputSelection = Null]

setEnabled(self, value) ==
    IF self.enabled = value THEN self
    ELSE [self EXCEPT !.enabled = value,
                      !.scrollOffset = 0,
                      !.lastOutputLineCount = 0,
                      !.lastAvailableHeight = 0,
                      !.lastMaxScrollOffset = 0,
                      !.outputSelection = Null]

\* Faulty variant: no upper clamp.
scrollByUnclamped(self, lines) ==
    IF ~self.enabled \/ lines = 0 THEN self
    ELSE [self EXCEPT !.scrollOffset = Max(0, self.scrollOffset + lines),
                      !.outputSelection = Null]

\* Faulty variant: the selection is kept.
scrollByKeepingSelection(self, lines) ==
    IF ~self.enabled \/ lines = 0 THEN self
    ELSE [self EXCEPT !.scrollOffset =
                          clamp(self.scrollOffset + lines, 0, self.lastMaxScrollOffset)]

scrollBy(self, lines) ==
    IF ~self.enabled \/ lines = 0 THEN self
    ELSE [self EXCEPT !.scrollOffset =
                          clamp(self.scrollOffset + lines, 0, self.lastMaxScrollOffset),
                      !.outputSelection = Null]

\* Faulty variant: no floor of one line.
pageSizeNoFloor(self) == self.lastAvailableHeight - 1

pageSize(self) == Max(1, self.lastAvailableHeight - 1)

scrollByPage(self, pages) ==
    IF ~self.enabled \/ pages = 0 THEN self
    ELSE scrollBy(self, pages * pageSize(self))

\* Faulty variant: the offset is taken for a distance from the top.
scrollToBottomAtMax(self) ==
    [self EXCEPT !.scrollOffset = self.lastMaxScrollOffset, !.outputSelection = Null]

\* Faulty variant: the selection outlives the jump to the bottom.
scrollToBottomKeepingSelection(self) == [self EXCEPT !.scrollOffset = 0]

scrollToBottom(self) ==
    [self EXCEPT !.scrollOffset = 0, !.outputSelection = Null]

isScrolled(self) == self.scrollOffset > 0

\* Faulty variant: the accessor reads the other region.
getVisibleOutputLinesOfFixed(self) == self.lastVisibleFixedLines

getVisibleOutputLines(self) == self.lastVisibleOutputLines
getVisibleFixedLines(self) == self.lastVisibleFixedLines

\* Faulty variant: growth is not compensated.
growthIgnored(self, outputLines) == self.scrollOffset

\* Faulty variant: growth is compensated at the bottom too.
growthAdjustedAtBottom(self, outputLines) ==
    IF Len(outputLines) > self.lastOutputLineCount
    THEN self.scrollOffset + (Len(outputLines) - self.lastOutputLineCount)
    ELSE self.scrollOffset

\* render, enabled: keep the window on the same rows when output grew below it.
growthAdjusted(self, outputLines) ==
    IF self.scrollOffset > 0 /\ Len(outputLines) > self.lastOutputLineCount
    THEN self.scrollOffset + (Len(outputLines) - self.lastOutputLineCount)
    ELSE self.scrollOffset

\* Faulty variant: the top-most fixed lines are kept.
clipFixedFromTop(fixedLines, height) ==
    IF Len(fixedLines) > height THEN slice(fixedLines, 0, height) ELSE fixedLines

\* render, enabled: the fixed lines that fit, bottom-most kept.
clipFixed(fixedLines, height) ==
    IF Len(fixedLines) > height
    THEN slice(fixedLines, Len(fixedLines) - height, Len(fixedLines))
    ELSE fixedLines

\* Faulty variant: off by one.
recordedLineCountShort(outputLines) == Len(outputLines) - 1

\* render, enabled: the line count remembered for the next frame's growth check.
recordedLineCount(outputLines) == Len(outputLines)

maxScrollOffset(outputLines, availableHeight) ==
    Max(0, Len(outputLines) - availableHeight)

\* render, enabled: the window of output rows, before padding.
window(outputLines, availableHeight, offset) ==
    LET start == Max(0, Len(outputLines) - availableHeight - offset)
    IN  IF availableHeight > 0
        THEN slice(outputLines, start, start + availableHeight)
        ELSE << >>

padTo(visibleOutputLines, availableHeight) ==
    IF Len(visibleOutputLines) < availableHeight
    THEN visibleOutputLines
         \o [k \in 1..(availableHeight - Len(visibleOutputLines)) |-> EMPTY_LINE]
    ELSE visibleOutputLines

renderDisabled(self, outputLines, fixedLines) ==
    [self |-> [self EXCEPT !.lastOutputLineCount = Len(outputLines),
                           !.lastAvailableHeight = 0,
                           !.lastMaxScrollOffset = 0,
                           !.lastVisibleOutputLines = outputLines,
                           !.lastVisibleFixedLines = fixedLines],
     lines |-> outputLines \o fixedLines]

\* Faulty variant: the selection is applied to the whole frame.
renderEnabledHighlightingAll(self, height, outputLines, fixedLines) ==
    LET visibleFixedLines == clipFixed(fixedLines, height)
        availableHeight == Max(0, height - Len(visibleFixedLines))
        maxOffset == maxScrollOffset(outputLines, availableHeight)
        offset == clamp(growthAdjusted(self, outputLines), 0, maxOffset)
        visibleOutputLines ==
            padTo(window(outputLines, availableHeight, offset), availableHeight)
    IN  [self |-> [self EXCEPT !.scrollOffset = offset,
                               !.lastOutputLineCount = recordedLineCount(outputLines),
                               !.lastAvailableHeight = availableHeight,
                               !.lastMaxScrollOffset = maxOffset,
                               !.lastVisibleOutputLines = visibleOutputLines,
                               !.lastVisibleFixedLines = visibleFixedLines],
         lines |-> applyOutputSelection(self.outputSelection,
                                        visibleOutputLines \o visibleFixedLines)]

renderEnabled(self, height, outputLines, fixedLines) ==
    LET grown == growthAdjusted(self, outputLines)
        visibleFixedLines == clipFixed(fixedLines, height)
        availableHeight == Max(0, height - Len(visibleFixedLines))
        maxOffset == maxScrollOffset(outputLines, availableHeight)
        offset == clamp(grown, 0, maxOffset)
        visibleOutputLines ==
            padTo(window(outputLines, availableHeight, offset), availableHeight)
    IN  [self |-> [self EXCEPT !.scrollOffset = offset,
                               !.lastOutputLineCount = recordedLineCount(outputLines),
                               !.lastAvailableHeight = availableHeight,
                               !.lastMaxScrollOffset = maxOffset,
                               !.lastVisibleOutputLines = visibleOutputLines,
                               !.lastVisibleFixedLines = visibleFixedLines],
         lines |-> applyOutputSelection(self.outputSelection, visibleOutputLines)
                   \o visibleFixedLines]

\* Faulty variant: the disabled layout slices like the enabled one.
renderSlicedAlways(self, height, outputLines, fixedLines) ==
    renderEnabled(self, height, outputLines, fixedLines)

\* render(width): height is tui.terminal.rows, outputLines and fixedLines are
\* what the two children render at that width.
render(self, height, outputLines, fixedLines) ==
    IF ~self.enabled
    THEN renderDisabled(self, outputLines, fixedLines)
    ELSE renderEnabled(self, height, outputLines, fixedLines)

\* ----------------------------------------------------------------- actions
Init ==
    /\ layout = NewScrollLayout
    /\ outN = 0
    /\ fixN = 0
    /\ rows = 0
    /\ lastOp = "new"
    /\ rerender = "no"
    /\ returned = << >>
    /\ SelIdle /\ MouseIdle /\ StickyIdle /\ TuiIdle /\ FilterIdle /\ SearchIdle
    /\ OtherIdle

\* A call that is not a render: no frame is returned.
Call(op, next) ==
    /\ layout' = next
    /\ lastOp' = op
    /\ rerender' = "no"
    /\ returned' = << >>
    /\ UNCHANGED << outN, fixN, rows >>
    /\ UNCHANGED << selVars, mouseVars, stickyVars, tuiVars, filterVars, searchVars, otherVars >>

SetOutputSelection(selection) ==
    Call("setOutputSelection", setOutputSelection(layout, selection))

\* lastOp tells a toggle from a call with the value the layout already has.
SetEnabled(value) ==
    Call(IF layout.enabled = value THEN "setEnabledSame" ELSE "setEnabled",
         setEnabled(layout, value))

ScrollBy(lines) == Call("scrollBy", scrollBy(layout, lines))

ScrollByPage(pages) == Call("scrollByPage", scrollByPage(layout, pages))

ScrollToBottom == Call("scrollToBottom", scrollToBottom(layout))

\* One frame.  The children and the terminal are read anew: n, f and r are the
\* scrollable child's row count, the fixed child's row count and the terminal's
\* row count at this frame, whatever they were at the frame before.
Render(n, f, r) ==
    LET result == render(layout, r, OutputLines(n), FixedLines(f))
    IN  /\ layout' = result.self
        /\ returned' = result.lines
        /\ outN' = n
        /\ fixN' = f
        /\ rows' = r
        /\ lastOp' = "render"
        /\ rerender' = IF lastOp # "render" THEN "no"
                       ELSE IF n = outN /\ f = fixN /\ r = rows THEN "same"
                       ELSE IF n > outN /\ f = fixN /\ r = rows THEN "grown"
                       ELSE "no"
        /\ UNCHANGED << selVars, mouseVars, stickyVars, tuiVars, filterVars, searchVars, otherVars >>

Next ==
    \/ \E selection \in {Null} \cup {Some(s) : s \in SelectionInputs} :
          SetOutputSelection(selection)
    \/ \E value \in BOOLEAN : SetEnabled(value)
    \/ \E lines \in -MaxScroll..MaxScroll : ScrollBy(lines)
    \/ \E pages \in -MaxPages..MaxPages : ScrollByPage(pages)
    \/ ScrollToBottom
    \/ \E n \in 0..MaxOutput, f \in 0..MaxFixed, r \in 0..MaxRows : Render(n, f, r)

Spec == Init /\ [][Next]_vars

\* ------------------------------------------------ one highlighted frame
\* SpecSel: a new layout is enabled, given one selection of the grid and
\* rendered once; selOut keeps the frame, the layout after the render and the
\* selection that normalizeOutputSelection handed to the highlighter.
SelectionGrid ==
    { Selection(startRow, startCol, endRow, endCol) :
        startRow \in -1..MaxSelRow, startCol \in -1..MaxSelCol,
        endRow \in -1..MaxSelRow, endCol \in -1..MaxSelCol }

InitSel ==
    /\ selIn \in [selection : SelectionGrid, n : 0..MaxOutput,
                   f : 0..MaxFixed, r : 0..MaxRows]
    /\ selOut = Idle
    /\ ScrollIdle /\ MouseIdle /\ StickyIdle /\ TuiIdle /\ FilterIdle /\ SearchIdle
    /\ OtherIdle

RenderSelected ==
    /\ selOut = Idle
    /\ LET self == setOutputSelection(setEnabled(NewScrollLayout, TRUE),
                                      Some(selIn.selection))
           result == render(self, selIn.r, OutputLines(selIn.n), FixedLines(selIn.f))
       IN  selOut' = [lines |-> result.lines,
                      self |-> result.self,
                      normalized |->
                          normalizeOutputSelection(
                              selIn.selection,
                              Len(result.self.lastVisibleOutputLines))]
    /\ UNCHANGED << selIn, scrollVars, mouseVars, stickyVars, tuiVars, filterVars, searchVars, otherVars >>

NextSel == RenderSelected
SpecSel == InitSel /\ [][NextSel]_vars

\* ------------------------------------------------------------------ claims
\* A line without its styling markers.
Plain(line) == SelectSeq(line, LAMBDA c : c # INVERSE /\ c # RESET)
PlainLines(lines) == [k \in 1..Len(lines) |-> Plain(lines[k])]
\* Rows left to the scrollable region when f fixed lines meet r terminal rows.
Available(f, r) == r - Min(f, r)
\* The scrollable part of a frame rendered for f fixed lines and r rows.
ScrollablePart(frame, f, r) == SubSeq(frame, 1, Available(f, r))
\* `count` content rows, the first one 0-based row `from`.
ContentRows(from, count) == [k \in 1..count |-> OutLine(from + k)]
Blank(count) == [k \in 1..count |-> EMPTY_LINE]
\* What a rows of screen show of n content rows, `offset` rows above the bottom.
ShownWindow(n, a, offset) ==
    IF n >= a THEN ContentRows(n - a - offset, a) ELSE OutputLines(n) \o Blank(a - n)
LiveEdge(n, a) == ShownWindow(n, a, 0)

\* C1: an enabled render returns exactly `rows` lines; the last min(F, rows) of
\* them are the last min(F, rows) lines of the fixed child, and every line
\* before them is a row of the scrollable child (possibly highlighted) or blank.
C1_FrameFillsViewport ==
    (lastOp = "render" /\ layout.enabled) =>
        LET k == Min(fixN, rows)
        IN  /\ Len(returned) = rows
            /\ SubSeq(returned, rows - k + 1, rows)
                   = SubSeq(FixedLines(fixN), fixN - k + 1, fixN)
            /\ \A i \in 1..(rows - k) :
                   Plain(returned[i]) \in {OutLine(j) : j \in 1..outN} \cup {EMPTY_LINE}
            /\ (fixN > rows => k = rows)

\* The fixed child is taller than a terminal of at least one row.
C1_Witness ==
    lastOp = "render" /\ layout.enabled /\ fixN > rows /\ rows > 0 /\ outN > 0

\* C2: in every state 0 <= scrollOffset <= lastMaxScrollOffset, where
\* lastMaxScrollOffset is 0 while disabled and, after an enabled render,
\* max(0, content length - available height) of that render.
C2_OffsetWithinBounds ==
    /\ 0 <= layout.scrollOffset
    /\ layout.scrollOffset <= layout.lastMaxScrollOffset
    /\ (~layout.enabled => layout.lastMaxScrollOffset = 0)
    /\ (lastOp = "new" => layout.lastMaxScrollOffset = 0)
    /\ (lastOp = "render" /\ layout.enabled =>
            layout.lastMaxScrollOffset = Max(0, outN - Available(fixN, rows)))

\* A render left the layout scrolled to the very top of its content.
C2_Witness ==
    /\ lastOp = "render" /\ layout.enabled
    /\ layout.scrollOffset > 0
    /\ layout.scrollOffset = layout.lastMaxScrollOffset

\* C3: a render of the enabled, scrolled layout that follows a render with
\* nothing in between but rows appended to the scrollable child (terminal
\* height and fixed region unchanged) returns the frame returned before.
C3_ViewportStable ==
    [][(rerender' = "grown" /\ layout.enabled /\ layout.scrollOffset > 0)
          => returned' = returned]_vars

\* Such a render happened, with scrollable rows on screen.
C3_Witness ==
    /\ rerender = "grown" /\ layout.enabled
    /\ layout.scrollOffset > 0
    /\ Available(fixN, rows) > 0

\* C4: a render of the enabled layout at the bottom (scrollOffset = 0) leaves
\* it at the bottom and shows the live edge: the last A content rows when
\* N >= A, else all N rows followed by A - N blank lines.
C4_FollowsOutput ==
    [][(lastOp' = "render" /\ layout.enabled /\ layout.scrollOffset = 0) =>
          /\ layout'.scrollOffset = 0
          /\ PlainLines(ScrollablePart(returned', fixN', rows'))
                 = LiveEdge(outN', Available(fixN', rows'))]_vars

\* The layout followed output that grew beyond the screen.
C4_Witness ==
    /\ rerender = "grown" /\ layout.enabled
    /\ layout.scrollOffset = 0
    /\ Available(fixN, rows) > 0
    /\ outN > Available(fixN, rows)

\* C5: a disabled render returns the scrollable child's full output followed
\* by the fixed child's full output: not sliced, not padded, not highlighted.
C5_DisabledRendersAll ==
    (lastOp = "render" /\ ~layout.enabled) =>
        returned = OutputLines(outN) \o FixedLines(fixN)

\* A disabled render of more lines than the terminal has, with a selection set.
C5_Witness ==
    /\ lastOp = "render" /\ ~layout.enabled
    /\ layout.outputSelection # Null
    /\ outN > 0
    /\ outN + fixN > rows

\* C6: scrollBy(n), n # 0, on an enabled layout sets scrollOffset to
\* min(max(scrollOffset + n, 0), lastMaxScrollOffset) and clears the selection;
\* on a disabled layout it changes nothing.  The render that follows a scrollBy
\* with the content unchanged shows the window that ends scrollOffset rows above
\* the last content row (starts at row N - A - scrollOffset when N >= A), and
\* keeps the offset when the terminal and the fixed region are unchanged too.
C6_ScrollBy ==
    [][/\ \A lines \in -MaxScroll..MaxScroll :
             ScrollBy(lines) =>
                 /\ (layout.enabled /\ lines # 0) =>
                        /\ layout'.scrollOffset
                               = Min(Max(layout.scrollOffset + lines, 0),
                                     layout.lastMaxScrollOffset)
                        /\ layout'.outputSelection = Null
                        /\ layout' = [layout EXCEPT
                                         !.scrollOffset = layout'.scrollOffset,
                                         !.outputSelection = Null]
                 /\ ~layout.enabled => layout' = layout
       /\ (lastOp = "scrollBy" /\ layout.enabled /\ lastOp' = "render" /\ outN' = outN) =>
             /\ PlainLines(ScrollablePart(returned', fixN', rows'))
                    = ShownWindow(outN, Available(fixN', rows'), layout'.scrollOffset)
             /\ (fixN' = fixN /\ rows' = rows) =>
                    layout'.scrollOffset = layout.scrollOffset]_vars

\* scrollBy left the layout strictly between the bottom and the top.
C6_Witness ==
    /\ lastOp = "scrollBy" /\ layout.enabled
    /\ layout.scrollOffset > 0
    /\ layout.scrollOffset < layout.lastMaxScrollOffset

C8_ScrollToBottom ==
    [][/\ ScrollToBottom =>
             /\ ~isScrolled(layout')
             /\ ~layout.enabled =>
                    \A n \in 0..MaxOutput, f \in 0..MaxFixed, r \in 0..MaxRows :
                        render(layout', r, OutputLines(n), FixedLines(f)).lines
                            = render(layout, r, OutputLines(n), FixedLines(f)).lines
       /\ (lastOp = "scrollToBottom" /\ layout.enabled /\ lastOp' = "render") =>
             /\ layout'.scrollOffset = 0
             /\ ScrollablePart(returned', fixN', rows')
                    = LiveEdge(outN', Available(fixN', rows'))]_vars

\* scrollToBottom was called on an enabled layout whose latest frame was not
\* the live edge.
C8_Witness ==
    /\ lastOp = "scrollToBottom" /\ layout.enabled
    /\ layout.lastMaxScrollOffset > 0
    /\ layout.lastVisibleOutputLines # LiveEdge(outN, layout.lastAvailableHeight)

\* C9: a setEnabled that changes the flag leaves scrollOffset = 0 and no
\* selection, and the first render after enabling shows the live edge and
\* stays at the bottom.
C9_SetEnabled ==
    [][/\ \A value \in BOOLEAN :
             (SetEnabled(value) /\ value # layout.enabled) =>
                 /\ layout'.enabled = value
                 /\ layout'.scrollOffset = 0
                 /\ layout'.outputSelection = Null
       /\ (lastOp = "setEnabled" /\ layout.enabled /\ lastOp' = "render") =>
             /\ layout'.scrollOffset = 0
             /\ ScrollablePart(returned', fixN', rows')
                    = LiveEdge(outN', Available(fixN', rows'))]_vars

\* The layout was enabled after it had rendered before.
C9_Witness ==
    /\ lastOp = "setEnabled" /\ layout.enabled
    /\ Len(layout.lastVisibleOutputLines) > 0

\* C10: a render that follows a render with the same inputs and nothing in
\* between returns the same lines and leaves the layout as it was.
C10_RenderIdempotent ==
    [][rerender' = "same" =>
          /\ returned' = returned
          /\ layout'.scrollOffset = layout.scrollOffset
          /\ layout'.lastMaxScrollOffset = layout.lastMaxScrollOffset
          /\ layout'.lastAvailableHeight = layout.lastAvailableHeight
          /\ layout'.lastOutputLineCount = layout.lastOutputLineCount
          /\ layout' = layout]_vars

\* A scrolled layout with a selection was rendered twice.
C10_Witness ==
    /\ rerender = "same" /\ layout.enabled
    /\ layout.scrollOffset > 0
    /\ layout.outputSelection # Null

\* C11, as stated: in every step in which scrollOffset takes a different
\* value, a public operation or a render, the selection is null afterwards.
C11_ClearedOnEveryChange ==
    [][layout'.scrollOffset # layout.scrollOffset
           => layout'.outputSelection = Null]_vars

\* C11, amended: every public operation (setEnabled, scrollBy, scrollByPage,
\* scrollToBottom) that gives scrollOffset a different value leaves the
\* selection null; a render never touches the selection, also when growth
\* compensation or clamping gives scrollOffset a different value.
C11_ClearedByOperations ==
    [][/\ (lastOp' # "render" /\ layout'.scrollOffset # layout.scrollOffset)
             => layout'.outputSelection = Null
       /\ lastOp' = "render"
             => layout'.outputSelection = layout.outputSelection]_vars

\* A render of grown output moved the offset of a scrolled layout (a scrolled
\* layout's offset always moves with growth) and the selection is still there.
C11_Witness ==
    /\ rerender = "grown" /\ layout.enabled
    /\ layout.scrollOffset > 0
    /\ layout.outputSelection # Null

\* C15, as stated: after any render, getVisibleOutputLines() followed by
\* getVisibleFixedLines() is exactly the line sequence that render returned.
C15_AccessorsAreFrame ==
    lastOp = "render" =>
        returned = getVisibleOutputLines(layout) \o getVisibleFixedLines(layout)

\* C15, amended: after any render the two accessors together are the frame
\* that render returned with the inverse-video markers of the selection taken
\* out; they are exactly the frame when the layout is disabled or has no
\* selection.
C15_AccessorsAreUnhighlightedFrame ==
    lastOp = "render" =>
        LET read == getVisibleOutputLines(layout) \o getVisibleFixedLines(layout)
        IN  /\ PlainLines(returned) = read
            /\ Len(getVisibleFixedLines(layout))
                   = IF layout.enabled THEN Min(fixN, rows) ELSE fixN
            /\ (~layout.enabled \/ layout.outputSelection = Null) => returned = read

\* A render highlighted a row, which the accessor returns without the markers.
C15_Witness ==
    /\ lastOp = "render" /\ layout.enabled
    /\ layout.outputSelection # Null
    /\ fixN > 0 /\ Len(getVisibleOutputLines(layout)) > 0
    /\ returned # getVisibleOutputLines(layout) \o getVisibleFixedLines(layout)

\* ===================================================== SGR mouse decoder
\* packages/tui/src/mouse.ts.  A chunk is a sequence of character codes.
ESC == 27           \* "\x1b"
LBRACKET == 91      \* "["
LESS == 60          \* "<"
SEMI == 59          \* ";"
UPPER_M == 77       \* "M"
LOWER_M == 109      \* "m"
ZERO == 48          \* "0"
NINE == 57          \* "9"
LETTER_X == 120     \* "x", a byte that no sequence holds
NaN == -1           \* Number.parseInt of a string without a leading digit

\* \d
isDigit(c) == ZERO <= c /\ c <= NINE

\* The index after the digits that start at index `from` (greedy \d*).
RECURSIVE digitsEnd(_, _)
digitsEnd(data, from) ==
    IF from <= Len(data) /\ isDigit(data[from])
    THEN digitsEnd(data, from + 1)
    ELSE from

\* Faulty variant: the pattern without its closing anchor.
SGR_MOUSE_REGEX_Open(data) ==
    LET codeEnd == digitsEnd(data, 4)
        xEnd == digitsEnd(data, codeEnd + 1)
        yEnd == digitsEnd(data, xEnd + 1)
    IN  IF /\ Len(data) >= 3
           /\ SubSeq(data, 1, 3) = << ESC, LBRACKET, LESS >>
           /\ codeEnd > 4 /\ codeEnd <= Len(data) /\ data[codeEnd] = SEMI
           /\ xEnd > codeEnd + 1 /\ xEnd <= Len(data) /\ data[xEnd] = SEMI
           /\ yEnd > xEnd + 1 /\ yEnd <= Len(data)
           /\ data[yEnd] \in {LOWER_M, UPPER_M}
        THEN Some(<< SubSeq(data, 4, codeEnd - 1),
                     SubSeq(data, codeEnd + 1, xEnd - 1),
                     SubSeq(data, xEnd + 1, yEnd - 1),
                     data[yEnd] >>)
        ELSE Null

\* data.match(/^\x1b\[<(\d+);(\d+);(\d+)([mM])$/): Null, or Some of the four
\* groups.  Each \d+ is followed by a character that is not a digit, so it
\* can only match the whole run of digits.
SGR_MOUSE_REGEX(data) ==
    LET codeEnd == digitsEnd(data, 4)
        xEnd == digitsEnd(data, codeEnd + 1)
        yEnd == digitsEnd(data, xEnd + 1)
    IN  IF /\ Len(data) >= 3
           /\ SubSeq(data, 1, 3) = << ESC, LBRACKET, LESS >>
           /\ codeEnd > 4 /\ codeEnd <= Len(data) /\ data[codeEnd] = SEMI
           /\ xEnd > codeEnd + 1 /\ xEnd <= Len(data) /\ data[xEnd] = SEMI
           /\ yEnd > xEnd + 1 /\ yEnd <= Len(data)
           /\ data[yEnd] \in {LOWER_M, UPPER_M}
           /\ yEnd = Len(data)
        THEN Some(<< SubSeq(data, 4, codeEnd - 1),
                     SubSeq(data, codeEnd + 1, xEnd - 1),
                     SubSeq(data, xEnd + 1, yEnd - 1),
                     data[yEnd] >>)
        ELSE Null

\* Number.parseInt(text, 10) of a text of digits.
RECURSIVE parseInt(_)
parseInt(text) ==
    IF Len(text) = 0 THEN NaN
    ELSE IF Len(text) = 1 THEN text[1] - ZERO
    ELSE 10 * parseInt(SubSeq(text, 1, Len(text) - 1)) + (text[Len(text)] - ZERO)

isFinite(value) == value # NaN

\* a & b of two non-negative numbers below 2^31.
RECURSIVE bitAnd(_, _)
bitAnd(a, b) ==
    IF a = 0 \/ b = 0 THEN 0
    ELSE (a % 2) * (b % 2) + 2 * bitAnd(a \div 2, b \div 2)

\* Faulty variant: the coordinate is not held at 0.
zeroBasedBelowZero(v) == v - 1

\* col = Math.max(0, x - 1), row = Math.max(0, y - 1)
zeroBased(v) == Max(0, v - 1)

modifiers(code) ==
    [shift |-> bitAnd(code, 4) # 0,
     alt |-> bitAnd(code, 8) # 0,
     ctrl |-> bitAnd(code, 16) # 0]

\* Faulty variant: the two wheel directions exchanged.
wheelDeltaExchanged(wheel) ==
    IF wheel = 0 THEN Some(1) ELSE IF wheel = 1 THEN Some(-1) ELSE Null

\* Null stands for the `return null` of the last branch.
wheelDelta(wheel) ==
    IF wheel = 0 THEN Some(-1) ELSE IF wheel = 1 THEN Some(1) ELSE Null

buttonOf(buttonCode) ==
    IF buttonCode = 0 THEN Some("left")
    ELSE IF buttonCode = 1 THEN Some("middle")
    ELSE IF buttonCode = 2 THEN Some("right")
    ELSE Null

\* Faulty variant: the trailing character is looked at before the motion bit.
actionOfTrailingFirst(isMotion, trailing) ==
    IF trailing = LOWER_M THEN "release" ELSE IF isMotion THEN "drag" ELSE "press"

actionOf(isMotion, trailing) ==
    IF isMotion THEN "drag" ELSE IF trailing = LOWER_M THEN "release" ELSE "press"

\* Null, or Some(event).
parseMouseEvent(data) ==
    LET match == SGR_MOUSE_REGEX(data)
    IN  IF match = Null THEN Null
        ELSE
        LET code == parseInt(match[1][1])
            x == parseInt(match[1][2])
            y == parseInt(match[1][3])
        IN  IF ~isFinite(code) \/ ~isFinite(x) \/ ~isFinite(y) THEN Null
            ELSE
            LET col == zeroBased(x)
                row == zeroBased(y)
                isWheel == bitAnd(code, 64) # 0
                delta == wheelDelta(bitAnd(code, 3))
                isMotion == bitAnd(code, 32) # 0
                button == buttonOf(bitAnd(code, 3))
            IN  IF isWheel
                THEN IF delta = Null THEN Null
                     ELSE Some([type |-> "scroll", delta |-> delta[1],
                                x |-> col, y |-> row,
                                modifiers |-> modifiers(code)])
                ELSE IF button = Null THEN Null
                     ELSE Some([type |-> "button",
                                action |-> actionOf(isMotion, match[1][4]),
                                button |-> button[1],
                                x |-> col, y |-> row,
                                modifiers |-> modifiers(code)])

\* ------------------------------------------------------ received chunks
\* The decimal digits of a number, as a terminal writes them.
RECURSIVE Decimal(_)
Decimal(n) ==
    IF n < 10 THEN << ZERO + n >>
    ELSE Decimal(n \div 10) \o << ZERO + (n % 10) >>

\* ESC [ < code ; x ; y final
Sequence(code, x, y, final) ==
    << ESC, LBRACKET, LESS >> \o code \o << SEMI >> \o x \o << SEMI >> \o y
        \o << final >>

\* Chunks that are one sequence: as a terminal writes it, and with a zero
\* before every number.
WellFormedShapes == { "plain", "zeros" }
\* Chunks that are not one sequence.
MalformedShapes ==
    { "empty", "noEsc", "noCode", "noX", "noY", "twoFields", "fourFields",
      "letterInCode", "letterForX", "letterAfterY", "leading", "trailing",
      "twice", "noFinal", "otherFinal", "legacy" }

Chunk(in) ==
    LET code == Decimal(in.code)
        x == Decimal(in.x)
        y == Decimal(in.y)
        one == Sequence(code, x, y, in.final)
    IN  CASE in.shape = "plain" -> one
          [] in.shape = "zeros" ->
                Sequence(<< ZERO >> \o code, << ZERO >> \o x, << ZERO >> \o y, in.final)
          [] in.shape = "empty" -> << >>
          [] in.shape = "noEsc" -> Tail(one)
          [] in.shape = "noCode" -> Sequence(<< >>, x, y, in.final)
          [] in.shape = "noX" -> Sequence(code, << >>, y, in.final)
          [] in.shape = "noY" -> Sequence(code, x, << >>, in.final)
          [] in.shape = "twoFields" ->
                << ESC, LBRACKET, LESS >> \o code \o << SEMI >> \o x \o << in.final >>
          [] in.shape = "fourFields" ->
                Sequence(code, x, y \o << SEMI >> \o y, in.final)
          [] in.shape = "letterInCode" ->
                Sequence(code \o << LETTER_X >>, x, y, in.final)
          [] in.shape = "letterForX" -> Sequence(code, << LETTER_X >>, y, in.final)
          [] in.shape = "letterAfterY" ->
                Sequence(code, x, y \o << LETTER_X >>, in.final)
          [] in.shape = "leading" -> << LETTER_X >> \o one
          [] in.shape = "trailing" -> one \o << LETTER_X >>
          [] in.shape = "twice" -> one \o one
          [] in.shape = "noFinal" -> SubSeq(one, 1, Len(one) - 1)
          [] in.shape = "otherFinal" -> SubSeq(one, 1, Len(one) - 1) \o << LETTER_X >>
          [] in.shape = "legacy" ->
                << ESC, LBRACKET, UPPER_M >> \o code \o x \o y

InitMouse ==
    /\ mouseIn \in [shape : WellFormedShapes \cup MalformedShapes,
                     code : 0..MaxCode, x : 0..MaxCoord, y : 0..MaxCoord,
                     final : {UPPER_M, LOWER_M}]
    /\ mouseData = Chunk(mouseIn)
    /\ mouseOut = Idle
    /\ ScrollIdle /\ SelIdle /\ StickyIdle /\ TuiIdle /\ FilterIdle /\ SearchIdle
    /\ OtherIdle

ParseMouseEvent ==
    /\ mouseOut = Idle
    /\ mouseOut' = [event |-> parseMouseEvent(mouseData)]
    /\ UNCHANGED << mouseIn, mouseData, scrollVars, selVars, stickyVars, tuiVars, filterVars, searchVars, otherVars >>

NextMouse == ParseMouseEvent
SpecMouse == InitMouse /\ [][NextMouse]_vars

\* ================================================== sticky header overlay
\* sticky-header.ts.  A line is a sequence of cells: text, SPACE, and the
\* styling markers INVERSE and RESET.  An option that is not given is Null, a
\* given one is Some(number).
SPACE == 32                 \* " "
DEFAULT_SCAN_LIMIT == 20    \* options.scanLimit ?? 20
\* What reading an array outside its indices gives; no line equals it.
undefined == << -1 >>

\* strip-ansi: the line without its styling sequences.
stripAnsi(line) == SelectSeq(line, LAMBDA c : c # INVERSE /\ c # RESET)

\* String.prototype.trim
trim(text) ==
    LET inked == { k \in 1..Len(text) : text[k] # SPACE }
    IN  IF inked = {} THEN << >>
        ELSE SubSeq(text,
                    CHOOSE k \in inked : \A j \in inked : k <= j,
                    CHOOSE k \in inked : \A j \in inked : k >= j)

\* lines[index], index 0-based.
at(lines, index) ==
    IF 0 <= index /\ index < Len(lines) THEN lines[index + 1] ELSE undefined

\* Faulty variant: styling counts as text.
findHeaderLineIndexStyled(lines, scanLimit) ==
    LET limit == Min(Len(lines), Max(1, scanLimit))
        found == { i \in 0..(limit - 1) : Len(trim(lines[i + 1])) > 0 }
    IN  IF found = {} THEN Null
        ELSE Some(CHOOSE i \in found : \A j \in found : i <= j)

\* Faulty variant: every line is scanned.
findHeaderLineIndexUnlimited(lines, scanLimit) ==
    LET found == { i \in 0..(Len(lines) - 1) : Len(trim(stripAnsi(lines[i + 1]))) > 0 }
    IN  IF found = {} THEN Null
        ELSE Some(CHOOSE i \in found : \A j \in found : i <= j)

\* Null, or Some(index) of the first of the leading lines with text.
findHeaderLineIndex(lines, scanLimit) ==
    LET limit == Min(Len(lines), Max(1, scanLimit))
        found == { i \in 0..(limit - 1) : Len(trim(stripAnsi(lines[i + 1]))) > 0 }
    IN  IF found = {} THEN Null
        ELSE Some(CHOOSE i \in found : \A j \in found : i <= j)

\* Faulty variant: the viewportHeight hint is ignored.
effectiveTopUnclamped(lines, viewportTop, options) == viewportTop

\* `options.viewportHeight ? ... : viewportTop` takes the second branch for a
\* missing hint and for 0.
effectiveTop(lines, viewportTop, options) ==
    LET maxViewportTop ==
            IF options.viewportHeight # Null /\ options.viewportHeight[1] # 0
            THEN Max(0, Len(lines) - options.viewportHeight[1])
            ELSE viewportTop
    IN  Min(viewportTop, maxViewportTop)

applyStickyHeader(lines, viewportTop, options) ==
    IF Len(lines) = 0 THEN lines
    ELSE
    LET top == effectiveTop(lines, viewportTop, options)
        headerIndex ==
            IF options.headerIndex # Null THEN options.headerIndex
            ELSE findHeaderLineIndex(
                     lines,
                     IF options.scanLimit # Null THEN options.scanLimit[1]
                     ELSE DEFAULT_SCAN_LIMIT)
    IN  IF top <= 0 \/ top >= Len(lines) THEN lines
        ELSE IF headerIndex = Null THEN lines
        ELSE IF top <= headerIndex[1] THEN lines
        ELSE [lines EXCEPT ![top + 1] = at(lines, headerIndex[1])]

\* The caller's array after the call: the header is written to
\* nextLines = lines.slice(), a copy, and to nothing else.
linesAfterCall(lines, viewportTop, options) == lines

\* -------------------------------------------------------- overlay inputs
\* The line at 0-based index i of a block: without cells, of styled spaces
\* only, or with a text that no other line has.
LineKinds == { "empty", "blank", "text" }
LineOf(kind, i) ==
    CASE kind = "empty" -> << >>
      [] kind = "blank" -> << SPACE, INVERSE, SPACE, RESET >>
      [] kind = "text" -> << SPACE, INVERSE, 300 + i, RESET, SPACE >>
Block(kinds) == [k \in 1..Len(kinds) |-> LineOf(kinds[k], k - 1)]

Optional(numbers) == {Null} \cup { Some(v) : v \in numbers }
StickyOptions ==
    [headerIndex : Optional(-1..MaxLines), scanLimit : Optional(0..MaxLines),
     viewportHeight : Optional(0..(MaxLines + 1))]

\* Ten lines of which line 1 is the only one with text among the first five,
\* and the options { viewportHeight: 5 }.
ExampleLines ==
    Block(<< "empty", "text", "blank", "empty", "blank",
             "text", "text", "text", "text", "text" >>)
ExampleOptions == [headerIndex |-> Null, scanLimit |-> Null, viewportHeight |-> Some(5)]
Example(viewportTop) ==
    [lines |-> ExampleLines, viewportTop |-> viewportTop, options |-> ExampleOptions]

InitSticky ==
    /\ stickyIn \in
          { [lines |-> Block(kinds), viewportTop |-> viewportTop, options |-> options] :
              kinds \in UNION { [1..len -> LineKinds] : len \in 0..MaxLines },
              viewportTop \in -1..(MaxLines + 1),
              options \in StickyOptions }
          \cup { Example(0), Example(6) }
    /\ stickyOut = Idle
    /\ ScrollIdle /\ SelIdle /\ MouseIdle /\ TuiIdle /\ FilterIdle /\ SearchIdle
    /\ OtherIdle

ApplyStickyHeader ==
    /\ stickyOut = Idle
    /\ stickyOut' = [lines |-> applyStickyHeader(stickyIn.lines, stickyIn.viewportTop,
                                                 stickyIn.options),
                     input |-> linesAfterCall(stickyIn.lines, stickyIn.viewportTop,
                                              stickyIn.options)]
    /\ UNCHANGED << stickyIn, scrollVars, selVars, mouseVars, tuiVars, filterVars, searchVars, otherVars >>

NextSticky == ApplyStickyHeader
SpecSticky == InitSticky /\ [][NextSticky]_vars

\* ====================================================== tui ScrollLayout
\* packages/tui, scroll-layout.ts: a layout with a top-relative scrollTop and
\* a followOutput flag.  Its scrollable child is [aware, rows]: `aware` says
\* whether the child has renderViewport, `rows` is what its render returns.
MAX_SAFE_INTEGER == 2147483647  \* stands for 2^53 - 1: more rows than any child has

NewTuiScrollLayout(options) ==
    [scrollEnabled |-> IF options.scrollEnabled = Null THEN TRUE
                       ELSE options.scrollEnabled[1],
     followOutput |-> IF options.followOutput = Null THEN TRUE
                      ELSE options.followOutput[1],
     scrollTop |-> 0,
     lastAvailableHeight |-> 0,
     lastContentHeight |-> 0,
     lastViewportHeight |-> 0]

getMaxScrollTop(self) == Max(0, self.lastContentHeight - self.lastAvailableHeight)

isAtBottom(self) == self.scrollTop >= getMaxScrollTop(self)

setScrollTop(self, top) ==
    LET maxScrollTop == getMaxScrollTop(self)
        clamped == Max(0, Min(top, maxScrollTop))
    IN  [self EXCEPT !.scrollTop = clamped, !.followOutput = clamped >= maxScrollTop]

setScrollEnabled(self, enabled) ==
    IF enabled THEN [self EXCEPT !.scrollEnabled = TRUE]
    ELSE [self EXCEPT !.scrollEnabled = FALSE, !.scrollTop = 0, !.followOutput = TRUE]

tuiScrollBy(self, lines) ==
    IF ~self.scrollEnabled THEN self
    ELSE setScrollTop(self, self.scrollTop + lines)

scrollToTop(self) ==
    IF ~self.scrollEnabled THEN self
    ELSE setScrollTop([self EXCEPT !.followOutput = FALSE], 0)

tuiScrollToBottom(self) ==
    IF ~self.scrollEnabled
    THEN [self EXCEPT !.scrollTop = 0, !.followOutput = TRUE]
    ELSE [self EXCEPT !.followOutput = TRUE, !.scrollTop = getMaxScrollTop(self)]

\* A child that follows the ViewportAware contract: the rows
\* [top, top + height) of its content, and the count of all its rows.
childRenderViewport(scrollable, viewport) ==
    [lines |-> IF viewport.height <= 0 THEN << >>
               ELSE slice(scrollable.rows, viewport.top, viewport.top + viewport.height),
     contentHeight |-> Len(scrollable.rows)]

\* The child's lines for a window, with the content height the layout takes
\* from them, and the windows a viewport-aware child was asked for.
requestLines(scrollable, height, top) ==
    IF scrollable.aware
    THEN LET result == childRenderViewport(scrollable, [height |-> height, top |-> top])
         IN  [lines |-> result.lines,
              contentHeight |-> Max(result.contentHeight, Len(result.lines)),
              asked |-> << [height |-> height, top |-> top] >>]
    ELSE [lines |-> scrollable.rows,
          contentHeight |-> Len(scrollable.rows),
          asked |-> << >>]

\* Faulty variant: follow mode is not looked at.
nextScrollTopClampedOnly(self, maxScrollTop) ==
    IF self.scrollEnabled THEN Min(self.scrollTop, maxScrollTop) ELSE 0

nextScrollTopOf(self, maxScrollTop) ==
    IF self.scrollEnabled
    THEN IF self.followOutput THEN maxScrollTop ELSE Min(self.scrollTop, maxScrollTop)
    ELSE 0

\* Faulty variant: the lines of the first request are kept.
rerenderedStale(scrollable, availableHeight, nextScrollTop, first) == first

\* The second pass, taken when the scroll position was corrected.
rerendered(scrollable, availableHeight, nextScrollTop, first) ==
    IF scrollable.aware
    THEN LET again == requestLines(scrollable, availableHeight, nextScrollTop)
         IN  [again EXCEPT !.asked = first.asked \o again.asked]
    ELSE first

\* Enabled: a full render is cut to the window, a short one padded.
fitOutput(outputLines, outputContentHeight, scrollTop, availableHeight) ==
    LET cut == IF Len(outputLines) >= outputContentHeight
               THEN slice(outputLines, scrollTop, scrollTop + availableHeight)
               ELSE outputLines
    IN  IF Len(cut) < availableHeight
        THEN cut \o [k \in 1..(availableHeight - Len(cut)) |-> EMPTY_LINE]
        ELSE cut

\* Faulty variant: the fixed child is left out of the total.
frameContentHeightOfOutput(outputContentHeight, fixedHeight) == outputContentHeight

frameContentHeight(outputContentHeight, fixedHeight) == outputContentHeight + fixedHeight

renderViewport(self, scrollable, fullFixedLines, viewport) ==
    LET viewportHeight == Max(0, viewport.height)
        fixedHeight == Len(fullFixedLines)
        fixedLines ==
            IF self.scrollEnabled /\ fixedHeight > viewportHeight
            THEN slice(fullFixedLines, fixedHeight - viewportHeight, fixedHeight)
            ELSE fullFixedLines
        availableHeight == Max(0, viewportHeight - Len(fixedLines))
        renderHeight == IF self.scrollEnabled THEN availableHeight ELSE viewport.height
        renderTop == IF self.scrollEnabled THEN self.scrollTop ELSE viewport.top
        first == requestLines(scrollable, renderHeight, renderTop)
        maxScrollTop == Max(0, first.contentHeight - availableHeight)
        nextScrollTop == nextScrollTopOf(self, maxScrollTop)
        output == IF self.scrollEnabled /\ nextScrollTop # self.scrollTop
                  THEN rerendered(scrollable, availableHeight, nextScrollTop, first)
                  ELSE first
        scrollTop == IF self.scrollEnabled THEN nextScrollTop ELSE self.scrollTop
        outputLines ==
            IF self.scrollEnabled
            THEN fitOutput(output.lines, output.contentHeight, scrollTop, availableHeight)
            ELSE output.lines
    IN  [self |-> [self EXCEPT !.scrollTop = scrollTop,
                               !.lastAvailableHeight = availableHeight,
                               !.lastContentHeight = output.contentHeight,
                               !.lastViewportHeight = viewportHeight,
                               !.followOutput =
                                   IF self.scrollEnabled THEN scrollTop >= maxScrollTop
                                   ELSE TRUE],
         lines |-> outputLines
                   \o (IF self.scrollEnabled THEN fixedLines ELSE fullFixedLines),
         contentHeight |-> frameContentHeight(output.contentHeight, fixedHeight),
         asked |-> output.asked]

\* render(width): the frame for the viewport height of the latest
\* renderViewport, or every line when there was none.  contentHeight is kept
\* for the record only; render returns the lines.
tuiRender(self, scrollable, fixedLines) ==
    IF self.lastViewportHeight > 0
    THEN renderViewport(self, scrollable, fixedLines,
                        [height |-> self.lastViewportHeight, top |-> 0])
    ELSE LET all == requestLines(scrollable, MAX_SAFE_INTEGER, 0)
         IN  [self |-> self,
              lines |-> all.lines \o fixedLines,
              contentHeight |-> frameContentHeight(all.contentHeight, Len(fixedLines)),
              asked |-> all.asked]

\* ----------------------------------------------------- SpecTui: actions
Kinds == { "native", "fallback" }
Scrollable(kind, n) == [aware |-> kind = "native", rows |-> OutputLines(n)]
ScrollLayoutOptions ==
    [scrollEnabled : Optional(BOOLEAN), followOutput : Optional(BOOLEAN)]

InitTui ==
    /\ \E options \in ScrollLayoutOptions :
           tuiPair = [kind \in Kinds |-> NewTuiScrollLayout(options)]
    /\ tuiOp = "new"
    /\ tuiFrame = Idle
    /\ ScrollIdle /\ SelIdle /\ MouseIdle /\ StickyIdle /\ FilterIdle /\ SearchIdle
    /\ OtherIdle

\* A call that returns nothing, made on both layouts: after[kind] is the
\* layout of that kind after the call.
TuiCall(op, after) ==
    /\ tuiPair' = after
    /\ tuiOp' = op
    /\ tuiFrame' = Idle
    /\ UNCHANGED << scrollVars, selVars, mouseVars, stickyVars, filterVars, searchVars, otherVars >>

\* A call that returns a frame, made on both layouts: results[kind] is what
\* the method returned for the layout of that kind.
TuiFrameCall(op, args, results) ==
    /\ tuiPair' = [kind \in Kinds |-> results[kind].self]
    /\ tuiOp' = op
    /\ tuiFrame' = [args |-> args,
                    out |-> [kind \in Kinds |->
                               [lines |-> results[kind].lines,
                                contentHeight |-> results[kind].contentHeight,
                                asked |-> results[kind].asked]]]
    /\ UNCHANGED << scrollVars, selVars, mouseVars, stickyVars, filterVars, searchVars, otherVars >>

SetScrollEnabled(enabled) ==
    TuiCall("setScrollEnabled",
            [kind \in Kinds |-> setScrollEnabled(tuiPair[kind], enabled)])

TuiScrollBy(lines) ==
    TuiCall("scrollBy", [kind \in Kinds |-> tuiScrollBy(tuiPair[kind], lines)])

ScrollToTop == TuiCall("scrollToTop", [kind \in Kinds |-> scrollToTop(tuiPair[kind])])

TuiScrollToBottom ==
    TuiCall("scrollToBottom", [kind \in Kinds |-> tuiScrollToBottom(tuiPair[kind])])

RenderViewport(n, f, height, top) ==
    TuiFrameCall("renderViewport",
                 [n |-> n, f |-> f, height |-> height, top |-> top],
                 [kind \in Kinds |->
                    renderViewport(tuiPair[kind], Scrollable(kind, n), FixedLines(f),
                                   [height |-> height, top |-> top])])

TuiRender(n, f) ==
    TuiFrameCall("render", [n |-> n, f |-> f],
                 [kind \in Kinds |->
                    tuiRender(tuiPair[kind], Scrollable(kind, n), FixedLines(f))])

NextTui ==
    \/ \E enabled \in BOOLEAN : SetScrollEnabled(enabled)
    \/ \E lines \in -MaxScroll..MaxScroll : TuiScrollBy(lines)
    \/ ScrollToTop
    \/ TuiScrollToBottom
    \/ \E n \in 0..MaxOutput, f \in 0..MaxFixed, height \in 0..MaxRows, top \in 0..MaxTop :
           RenderViewport(n, f, height, top)
    \/ \E n \in 0..MaxOutput, f \in 0..MaxFixed : TuiRender(n, f)

SpecTui == InitTui /\ [][NextTui]_vars

\* =========================================================== output filter
\* packages/coding-agent/src/utils/block-output-filter.ts.  A line of text
\* is a sequence of character codes.
MAX_CONTEXT_LINES == 10
LOWER_A == 97       \* "a"
UPPER_A == 65       \* "A"
LOWER_B == 98       \* "b"
CARET == 94         \* "^"

\* String.prototype.toLowerCase, on the letters A..Z.
toLowerCase(text) ==
    [k \in 1..Len(text) |->
        IF UPPER_A <= text[k] /\ text[k] < UPPER_A + 26
        THEN text[k] + (LOWER_A - UPPER_A) ELSE text[k]]

\* String.prototype.includes
includes(haystack, needle) ==
    \E p \in 0..(Len(haystack) - Len(needle)) :
        SubSeq(haystack, p + 1, p + Len(needle)) = needle

\* new RegExp(pattern, flags) for patterns of literal characters, "^" and
\* "[": Null stands for the SyntaxError thrown for a pattern that does not
\* compile, here one with a "[" (no "]" follows it in these patterns).
RegExp(pattern, flags) ==
    IF \E k \in 1..Len(pattern) : pattern[k] = LBRACKET THEN Null
    ELSE Some([source |-> pattern, ignoreCase |-> flags = "i"])

\* Whether source[k..] matches the line from column pos on.
RECURSIVE matchFrom(_, _, _, _)
matchFrom(source, k, line, pos) ==
    IF k > Len(source) THEN TRUE
    ELSE IF source[k] = CARET
    THEN pos = 0 /\ matchFrom(source, k + 1, line, pos)
    ELSE /\ pos < Len(line)
         /\ source[k] = line[pos + 1]
         /\ matchFrom(source, k + 1, line, pos + 1)

\* RegExp.prototype.test
test(regex, line) ==
    LET source == IF regex.ignoreCase THEN toLowerCase(regex.source) ELSE regex.source
        text == IF regex.ignoreCase THEN toLowerCase(line) ELSE line
    IN  \E pos \in 0..Len(line) : matchFrom(source, 1, text, pos)

normalizeOutputFilter(filter) ==
    [query |-> trim(filter.query),
     mode |-> filter.mode,
     caseSensitive |-> filter.caseSensitive,
     invert |-> filter.invert,
     contextLines |-> Max(0, Min(filter.contextLines, MAX_CONTEXT_LINES))]

\* The matcher of a normalized filter whose pattern compiles.
matcher(normalized, line) ==
    IF normalized.mode = "regex"
    THEN test(RegExp(normalized.query,
                     IF normalized.caseSensitive THEN "" ELSE "i")[1], line)
    ELSE LET needle == IF normalized.caseSensitive THEN normalized.query
                       ELSE toLowerCase(normalized.query)
             haystack == IF normalized.caseSensitive THEN line ELSE toLowerCase(line)
         IN  includes(haystack, needle)

\* matches[i] of the first loop, i 0-based.
isMatch(normalized, rawLines, i) ==
    matcher(normalized, rawLines[i + 1]) # normalized.invert

\* range[k] after the first loop: +1 for every match whose context starts at
\* k, -1 for every match whose context ends at k - 1.
rangeAt(normalized, rawLines, totalLines, k) ==
    LET context == normalized.contextLines
        hits == { i \in 0..(totalLines - 1) : isMatch(normalized, rawLines, i) }
    IN  Cardinality({ i \in hits : Max(0, i - context) = k })
        - Cardinality({ i \in hits : Min(totalLines - 1, i + context) + 1 = k })

\* active after adding range[0..i] in the second loop.
RECURSIVE active(_, _, _, _)
active(normalized, rawLines, totalLines, i) ==
    IF i < 0 THEN 0
    ELSE active(normalized, rawLines, totalLines, i - 1)
         + rangeAt(normalized, rawLines, totalLines, i)

\* Faulty variant: a context that reaches one line less far after a match.
keptShortAfter(normalized, rawLines, totalLines, i) ==
    \E j \in 0..(totalLines - 1) :
        /\ isMatch(normalized, rawLines, j)
        /\ j - normalized.contextLines <= i
        /\ i <= Max(j, j + normalized.contextLines - 1)

\* Whether the line at index i is pushed to filteredLines.
kept(normalized, rawLines, totalLines, i) ==
    IF normalized.contextLines > 0
    THEN active(normalized, rawLines, totalLines, i) > 0
    ELSE isMatch(normalized, rawLines, i)

RECURSIVE filteredLines(_, _, _, _, _)
filteredLines(normalized, rawLines, displayLines, totalLines, upTo) ==
    IF upTo <= 0 THEN << >>
    ELSE filteredLines(normalized, rawLines, displayLines, totalLines, upTo - 1)
         \o (IF kept(normalized, rawLines, totalLines, upTo - 1)
             THEN << displayLines[upTo] >> ELSE << >>)

\* filter is Null when the argument is missing.  The result is Null for the
\* returned null; its error is Null when the field is absent.
applyOutputFilter(rawLines, displayLines, filter) ==
    IF filter = Null THEN Null
    ELSE
    LET normalized == normalizeOutputFilter(filter[1])
        totalLines == Min(Len(rawLines), Len(displayLines))
    IN  IF normalized.query = << >> THEN Null
        ELSE IF totalLines = 0
        THEN [lines |-> << >>, matchCount |-> 0, totalLines |-> 0,
              filtered |-> TRUE, error |-> Null]
        ELSE IF normalized.mode = "regex"
                /\ RegExp(normalized.query,
                          IF normalized.caseSensitive THEN "" ELSE "i") = Null
        THEN [lines |-> slice(displayLines, 0, totalLines),
              matchCount |-> 0,
              totalLines |-> totalLines,
              filtered |-> FALSE,
              error |-> Some("Invalid regular expression")]
        ELSE [lines |-> filteredLines(normalized, rawLines, displayLines,
                                      totalLines, totalLines),
              matchCount |-> Cardinality({ i \in 0..(totalLines - 1) :
                                             isMatch(normalized, rawLines, i) }),
              totalLines |-> totalLines,
              filtered |-> TRUE,
              error |-> Null]

\* BashExecutionComponent.getOutputFilterResult, on a component without a
\* cached result.
getOutputFilterResult(rawLines, displayLines, outputFilter) ==
    IF outputFilter = Null THEN Null
    ELSE LET normalized == normalizeOutputFilter(outputFilter[1])
         IN  IF normalized.query = << >> THEN Null
             ELSE applyOutputFilter(rawLines, displayLines, Some(normalized))

\* BashExecutionComponent.applyOutputFilterToLines: the lines it shows.
applyOutputFilterToLines(rawLines, displayLines, outputFilter) ==
    LET result == getOutputFilterResult(rawLines, displayLines, outputFilter)
    IN  IF result = Null THEN displayLines
        ELSE IF ~result.filtered THEN displayLines
        ELSE result.lines

\* ---------------------------------------------------------- filter inputs
MaxFilterLines == 3     \* SpecFilter: most raw lines of a drawn block

\* The display line of the raw line at index i.
DisplayLine(i) == << 400 + i >>
DisplayLines(d) == [k \in 1..d |-> DisplayLine(k - 1)]

RawChoices == { << >>, << LOWER_A >>, << LOWER_B, UPPER_A >> }
\* A block longer than the largest context: "a" and eleven empty lines.
LongRaw ==
    [k \in 1..(MAX_CONTEXT_LINES + 2) |-> IF k = 1 THEN << LOWER_A >> ELSE << >>]
RawBlocks ==
    UNION { [1..n -> RawChoices] : n \in 0..MaxFilterLines } \cup { LongRaw }

Queries ==
    { << >>, << SPACE >>, << LOWER_A >>, << UPPER_A >>,
      << SPACE, LOWER_A, SPACE >>, << LOWER_B, LOWER_A >>,
      << LBRACKET >>, << LBRACKET, LOWER_A >>,
      << CARET, LOWER_A >>, << CARET, UPPER_A >> }
Filters ==
    [query : Queries, mode : {"text", "regex"}, caseSensitive : BOOLEAN,
     invert : BOOLEAN, contextLines : {-1, 0, 1, 2, MAX_CONTEXT_LINES + 1}]

InitFilter ==
    /\ \E rawLines \in RawBlocks :
       \E d \in { Len(rawLines) - 1, Len(rawLines), Len(rawLines) + 1 } \cap Nat :
       \E filter \in {Null} \cup { Some(f) : f \in Filters } :
           filterIn = [rawLines |-> rawLines, displayLines |-> DisplayLines(d),
                       filter |-> filter]
    /\ filterOut = Idle
    /\ ScrollIdle /\ SelIdle /\ MouseIdle /\ StickyIdle /\ TuiIdle /\ SearchIdle
    /\ OtherIdle

ApplyOutputFilter ==
    /\ filterOut = Idle
    /\ filterOut' =
           [result |-> applyOutputFilter(filterIn.rawLines, filterIn.displayLines,
                                         filterIn.filter),
            shown |-> applyOutputFilterToLines(filterIn.rawLines,
                                               filterIn.displayLines,
                                               filterIn.filter)]
    /\ UNCHANGED << filterIn, scrollVars, selVars, mouseVars, stickyVars, tuiVars,
                    searchVars, otherVars >>

NextFilter == ApplyOutputFilter
SpecFilter == InitFilter /\ [][NextFilter]_vars

\* ============================================================= line search
\* packages/coding-agent/src/utils/block-search.ts.  A text is a sequence of
\* character codes, its lines separated by NEWLINE.
NEWLINE == 10
DEFAULT_MAX_RESULTS == 200
DEFAULT_MAX_SCAN_LINES == 20000

\* text.indexOf("\n", start)
indexOf(text, start) ==
    LET found == { k \in start..(Len(text) - 1) : text[k + 1] = NEWLINE }
    IN  IF found = {} THEN -1 ELSE CHOOSE k \in found : \A j \in found : k <= j

\* Faulty variant: one result more than maxResults is kept.
pushesOneMore(results, maxResults) == Len(results) <= maxResults

\* The condition of results.push.
pushes(results, maxResults) == Len(results) < maxResults

\* The while loop from the state st on; the state it ends in.
RECURSIVE scanLines(_, _, _, _, _, _)
scanLines(text, needle, caseSensitive, maxResults, maxScanLines, st) ==
    IF ~(st.start <= Len(text)) THEN st
    ELSE IF st.lineIndex >= maxScanLines THEN [st EXCEPT !.truncated = TRUE]
    ELSE
    LET newlineIndex == indexOf(text, st.start)
        end == IF newlineIndex = -1 THEN Len(text) ELSE newlineIndex
        line == slice(text, st.start, end)
        haystack == IF caseSensitive THEN line ELSE toLowerCase(line)
        hit == includes(haystack, needle)
        scanned ==
            [st EXCEPT
                !.totalMatches = IF hit THEN @ + 1 ELSE @,
                !.results = IF hit /\ pushes(st.results, maxResults)
                            THEN Append(@, [lineIndex |-> st.lineIndex, line |-> line])
                            ELSE @,
                !.scannedLines = @ + 1,
                !.lineIndex = @ + 1]
    IN  IF newlineIndex = -1 THEN scanned
        ELSE scanLines(text, needle, caseSensitive, maxResults, maxScanLines,
                       [scanned EXCEPT !.start = newlineIndex + 1])

\* options: each field Null when not given.
searchTextByLine(text, query, options) ==
    LET trimmed == trim(query)
    IN  IF trimmed = << >>
        THEN [results |-> << >>, totalMatches |-> 0, scannedLines |-> 0,
              truncated |-> FALSE]
        ELSE
        LET caseSensitive == IF options.caseSensitive = Null THEN FALSE
                             ELSE options.caseSensitive[1]
            maxResults == IF options.maxResults = Null THEN DEFAULT_MAX_RESULTS
                          ELSE options.maxResults[1]
            maxScanLines == IF options.maxScanLines = Null THEN DEFAULT_MAX_SCAN_LINES
                            ELSE options.maxScanLines[1]
            needle == IF caseSensitive THEN trimmed ELSE toLowerCase(trimmed)
            st == scanLines(text, needle, caseSensitive, maxResults, maxScanLines,
                            [start |-> 0, lineIndex |-> 0, results |-> << >>,
                             totalMatches |-> 0, scannedLines |-> 0,
                             truncated |-> FALSE])
        IN  [results |-> st.results,
             totalMatches |-> st.totalMatches,
             scannedLines |-> st.scannedLines,
             truncated |-> IF st.start < Len(text) /\ ~st.truncated THEN TRUE
                           ELSE st.truncated]

\* ---------------------------------------------------------- search inputs
MaxText == 4        \* SpecSearch: most characters of the searched text
MaxLimit == 2       \* SpecSearch: largest maxResults and maxScanLines given

Texts == UNION { [1..n -> {LOWER_A, UPPER_A, NEWLINE}] : n \in 0..MaxText }
SearchQueries ==
    { << >>, << SPACE >>, << LOWER_A >>, << UPPER_A >>,
      << SPACE, LOWER_A, SPACE >>, << LOWER_A, UPPER_A >> }
BlockSearchOptions ==
    [caseSensitive : {Null, Some(TRUE), Some(FALSE)},
     maxResults : Optional(0..MaxLimit),
     maxScanLines : Optional(0..MaxLimit)]

InitSearch ==
    /\ searchIn \in [text : Texts, query : SearchQueries, options : BlockSearchOptions]
    /\ searchOut = Idle
    /\ ScrollIdle /\ SelIdle /\ MouseIdle /\ StickyIdle /\ TuiIdle /\ FilterIdle
    /\ OtherIdle

SearchTextByLine ==
    /\ searchOut = Idle
    /\ searchOut' = searchTextByLine(searchIn.text, searchIn.query, searchIn.options)
    /\ UNCHANGED << searchIn, scrollVars, selVars, mouseVars, stickyVars, tuiVars,
                    filterVars, otherVars >>

NextSearch == SearchTextByLine
SpecSearch == InitSearch /\ [][NextSearch]_vars

\* ========================================================= command palette
\* packages/coding-agent/src/modes/interactive/components/command-palette.ts,
\* class CommandPaletteComponent.  A key is named by its binding ("selectUp",
\* "selectDown", "selectConfirm", "selectCancel"), or is "backspace", or is
\* the one character it sends.
LOWER_J == 106      \* "j"
LOWER_K == 107      \* "k"

\* The character a key sends.
charCodeOf(keyData) ==
    CASE keyData = "a" -> LOWER_A
      [] keyData = "b" -> LOWER_B
      [] keyData = "j" -> LOWER_J
      [] keyData = "k" -> LOWER_K
      [] keyData = " " -> SPACE
      [] keyData = "\n" -> NEWLINE

\* Input.handleInput of the filter input: a character is added at the end,
\* backspace removes the last one, other keys leave the value.
inputHandleInput(value, keyData) ==
    IF keyData = "backspace" THEN slice(value, 0, Max(0, Len(value) - 1))
    ELSE IF keyData \in {"selectUp", "selectDown", "selectConfirm", "selectCancel"}
    THEN value
    ELSE value \o << charCodeOf(keyData) >>

\* Whether the characters of the query other than spaces occur in the text
\* in their order, without regard to case.
RECURSIVE fuzzyMatch(_, _)
fuzzyMatch(query, text) ==
    IF query = << >> THEN TRUE
    ELSE IF Head(query) = SPACE THEN fuzzyMatch(Tail(query), text)
    ELSE IF text = << >> THEN FALSE
    ELSE IF toLowerCase(<< Head(query) >>) = toLowerCase(<< Head(text) >>)
    THEN fuzzyMatch(Tail(query), Tail(text))
    ELSE fuzzyMatch(query, Tail(text))

getSearchText(item) == item.label \o << SPACE >>

\* fuzzyFilter(items, filterText, getSearchText)
fuzzyFilter(items, filterText) ==
    SelectSeq(items, LAMBDA item : fuzzyMatch(filterText, getSearchText(item)))

NewCommandPalette(items) ==
    [items |-> items, filteredItems |-> items, selectedIndex |-> 0, value |-> << >>]

applyFilter(self) ==
    LET filterText == trim(self.value)
    IN  [self EXCEPT
            !.filteredItems = IF filterText # << >>
                              THEN fuzzyFilter(self.items, filterText)
                              ELSE self.items,
            !.selectedIndex = 0]

\* Faulty variant: only the binding moves the selection up.
movesUpByBindingOnly(keyData) == keyData = "selectUp"

movesUp(keyData) == keyData = "selectUp" \/ keyData = "k"
movesDown(keyData) == keyData = "selectDown" \/ keyData = "j"
confirms(keyData) == keyData = "selectConfirm" \/ keyData = "\n"

\* handleInput: the component after the key, and the calls of onSelect (its
\* arguments, in order) and onCancel (their number) made for it.
paletteHandleInput(self, keyData) ==
    LET total == Len(self.filteredItems)
    IN  IF movesUp(keyData)
        THEN [self |-> IF total = 0 THEN self
                       ELSE [self EXCEPT !.selectedIndex = Max(0, @ - 1)],
              onSelect |-> << >>, onCancel |-> 0]
        ELSE IF movesDown(keyData)
        THEN [self |-> IF total = 0 THEN self
                       ELSE [self EXCEPT !.selectedIndex = Min(total - 1, @ + 1)],
              onSelect |-> << >>, onCancel |-> 0]
        ELSE IF confirms(keyData)
        THEN [self |-> self,
              onSelect |-> IF total = 0 THEN << >>
                           ELSE << self.filteredItems[self.selectedIndex + 1] >>,
              onCancel |-> 0]
        ELSE IF keyData = "selectCancel"
        THEN [self |-> self, onSelect |-> << >>, onCancel |-> 1]
        ELSE [self |-> applyFilter([self EXCEPT
                                       !.value = inputHandleInput(@, keyData)]),
              onSelect |-> << >>, onCancel |-> 0]

\* --------------------------------------------------------- palette inputs
MaxItems == 3       \* SpecPalette: most items of a palette
MaxFilterText == 2  \* SpecPalette: most characters typed into the filter

\* The labels of the items: "ab", "b", "Aj", "kb".
PaletteLabels ==
    << << LOWER_A, LOWER_B >>, << LOWER_B >>, << UPPER_A, LOWER_J >>,
       << LOWER_K, LOWER_B >> >>
PaletteItem(i) == [id |-> i, label |-> PaletteLabels[((i - 1) % 4) + 1]]
PaletteItems(n) == [i \in 1..n |-> PaletteItem(i)]

PaletteKeys ==
    { "selectUp", "selectDown", "selectConfirm", "selectCancel", "backspace",
      "j", "k", "\n", "a", "b", " " }

InitPalette ==
    /\ \E n \in 0..MaxItems : palette = NewCommandPalette(PaletteItems(n))
    /\ paletteKey = "new"
    /\ paletteCalls = [onSelect |-> << >>, onCancel |-> 0]
    /\ ScrollIdle /\ SelIdle /\ MouseIdle /\ StickyIdle /\ TuiIdle /\ FilterIdle
    /\ SearchIdle /\ ActionIdle /\ ChipsIdle /\ VimIdle /\ ToolIdle
    /\ BlockSearchIdle

\* One key given to handleInput.
HandleInput(keyData) ==
    LET handled == paletteHandleInput(palette, keyData)
    IN  /\ Len(handled.self.value) <= MaxFilterText
        /\ palette' = handled.self
        /\ paletteKey' = keyData
        /\ paletteCalls' = [onSelect |-> handled.onSelect, onCancel |-> handled.onCancel]
        /\ UNCHANGED << scrollVars, selVars, mouseVars, stickyVars, tuiVars,
                        filterVars, searchVars, actionVars, chipsVars,
                        vimVars, toolVars, blockSearchVars >>

NextPalette == \E keyData \in PaletteKeys : HandleInput(keyData)
SpecPalette == InitPalette /\ [][NextPalette]_vars

\* ====================================================== block action palette
\* class BlockActionPaletteComponent (block-action-palette.ts, in
\* packages/coding-agent/src/utils/git-status.ts of this source tree).  An
\* item is named by its index.  The list holds what updateList put into
\* listContainer: the indices of the item rows with the selected one, and
\* the scroll indicator (k/total) or Null.
DEFAULT_MAX_VISIBLE == 10

\* Faulty variant: the window follows the selection to the end of the list.
startIndexOfFollowing(selectedIndex, maxVisible, length) ==
    Max(0, selectedIndex - (maxVisible \div 2))

startIndexOf(selectedIndex, maxVisible, length) ==
    Max(0, Min(selectedIndex - (maxVisible \div 2), length - maxVisible))

updateList(self) ==
    IF self.length = 0
    THEN [self EXCEPT !.list = [empty |-> TRUE, rows |-> << >>, selected |-> {},
                                indicator |-> Null]]
    ELSE
    LET startIndex == startIndexOf(self.selectedIndex, self.maxVisible, self.length)
        endIndex == Min(startIndex + self.maxVisible, self.length)
    IN  [self EXCEPT
            !.list = [empty |-> FALSE,
                      rows |-> [k \in 1..Max(0, endIndex - startIndex) |->
                                  startIndex + k - 1],
                      selected |-> { i \in startIndex..(endIndex - 1) :
                                       i = self.selectedIndex },
                      indicator |-> IF startIndex > 0 \/ endIndex < self.length
                                    THEN Some([k |-> self.selectedIndex + 1,
                                               total |-> self.length])
                                    ELSE Null]]

\* length: items.length; maxVisible: Null when the option is not given.
NewBlockActionPalette(length, maxVisible) ==
    updateList([length |-> length,
                selectedIndex |-> 0,
                maxVisible |-> IF maxVisible = Null THEN DEFAULT_MAX_VISIBLE
                               ELSE maxVisible[1],
                list |-> Idle])

\* handleInput: the component after the key and the calls of onSelect (the
\* indices given) and onCancel (their number).
actionHandleInput(self, keyData) ==
    LET total == self.length
        quiet == [self |-> self, onSelect |-> << >>, onCancel |-> 0]
    IN  IF keyData = "selectUp" \/ keyData = "k"
        THEN IF total = 0 THEN quiet
             ELSE [quiet EXCEPT
                      !.self = updateList([self EXCEPT
                                              !.selectedIndex = Max(0, @ - 1)])]
        ELSE IF keyData = "selectDown" \/ keyData = "j"
        THEN IF total = 0 THEN quiet
             ELSE [quiet EXCEPT
                      !.self = updateList([self EXCEPT
                                              !.selectedIndex = Min(total - 1, @ + 1)])]
        ELSE IF keyData = "selectConfirm" \/ keyData = "\n"
        THEN IF total = 0 THEN quiet
             ELSE [quiet EXCEPT !.onSelect = << self.selectedIndex >>]
        ELSE IF keyData = "selectCancel"
        THEN [quiet EXCEPT !.onCancel = 1]
        ELSE quiet

\* ---------------------------------------------------- action palette inputs
MaxActions == 4     \* SpecActions: most items of the palette
MaxVisible == 3     \* SpecActions: largest maxVisible given

ActionKeys ==
    { "selectUp", "selectDown", "selectConfirm", "selectCancel", "j", "k", "\n", "a" }

InitActions ==
    /\ \E length \in 0..MaxActions, maxVisible \in Optional(0..MaxVisible) :
           actionPalette = NewBlockActionPalette(length, maxVisible)
    /\ actionKey = "new"
    /\ actionCalls = [onSelect |-> << >>, onCancel |-> 0]
    /\ ScrollIdle /\ SelIdle /\ MouseIdle /\ StickyIdle /\ TuiIdle /\ FilterIdle
    /\ SearchIdle /\ PaletteIdle /\ ChipsIdle /\ VimIdle /\ ToolIdle
    /\ BlockSearchIdle

ActionHandleInput(keyData) ==
    LET handled == actionHandleInput(actionPalette, keyData)
    IN  /\ actionPalette' = handled.self
        /\ actionKey' = keyData
        /\ actionCalls' = [onSelect |-> handled.onSelect, onCancel |-> handled.onCancel]
        /\ UNCHANGED << scrollVars, selVars, mouseVars, stickyVars, tuiVars,
                        filterVars, searchVars, paletteVars, chipsVars,
                        vimVars, toolVars, blockSearchVars >>

NextActions == \E keyData \in ActionKeys : ActionHandleInput(keyData)
SpecActions == InitActions /\ [][NextActions]_vars

\* ======================================================= prompt status chips
\* class PromptStatusChipsComponent (prompt-status-chips.ts, in
\* packages/coding-agent/src/utils/git-status.ts of this source tree).  A chip
\* is [text, priority]; its text is a sequence of character codes.
DOT == 46           \* "."
PADDING_X == 1

\* The ellipsis of a call of truncateToWidth that names none.
DEFAULT_ELLIPSIS == << DOT, DOT, DOT >>

\* truncateToWidth(text, maxWidth, ellipsis): the text when it fits, else as
\* many of its columns as leave room for the ellipsis, and the ellipsis; the
\* first maxWidth columns of the ellipsis when there is room for nothing else.
truncateToWidth(text, maxWidth, ellipsis) ==
    IF visibleWidth(text) <= maxWidth THEN text
    ELSE LET targetWidth == maxWidth - visibleWidth(ellipsis)
         IN  IF targetWidth <= 0 THEN slice(ellipsis, 0, maxWidth)
             ELSE slice(text, 0, targetWidth) \o ellipsis

repeat(count) == [k \in 1..count |-> SPACE]

RECURSIVE joinChips(_)
joinChips(chips) ==
    IF chips = << >> THEN << >>
    ELSE IF Len(chips) = 1 THEN chips[1].text
    ELSE chips[1].text \o << SPACE >> \o joinChips(Tail(chips))

\* Faulty variant: the chips are kept in the order given.
placedAsGiven(chips) == chips

\* [...priorityChips, ...normalChips]
placed(chips) ==
    SelectSeq(chips, LAMBDA chip : chip.priority)
        \o SelectSeq(chips, LAMBDA chip : ~chip.priority)

chipsRender(chips, width) ==
    IF Len(chips) = 0 THEN << >>
    ELSE
    LET availableWidth == Max(1, width - PADDING_X * 2)
        reorder == /\ visibleWidth(joinChips(chips)) > availableWidth
                   /\ \E k \in 1..Len(chips) : chips[k].priority
        displayText == truncateToWidth(
                           joinChips(IF reorder THEN placed(chips) ELSE chips),
                           availableWidth, DEFAULT_ELLIPSIS)
        lineWithPadding == repeat(PADDING_X) \o displayText \o repeat(PADDING_X)
        paddingNeeded == Max(0, width - visibleWidth(lineWithPadding))
    IN  << lineWithPadding \o repeat(paddingNeeded) >>

\* ------------------------------------------------------------ chip inputs
MaxChips == 3       \* SpecChips: most chips set
MaxWidth == 8       \* SpecChips: largest width rendered for

ChipChoices ==
    { [text |-> << LOWER_A >>, priority |-> FALSE],
      [text |-> << LOWER_B, LOWER_B >>, priority |-> FALSE],
      [text |-> << UPPER_A >>, priority |-> TRUE],
      [text |-> << LOWER_J, LOWER_K >>, priority |-> TRUE] }

InitChips ==
    /\ \E n \in 0..MaxChips : \E chips \in [1..n -> ChipChoices] :
       \E width \in 0..MaxWidth :
           chipsIn = [chips |-> chips, width |-> width]
    /\ chipsOut = Idle
    /\ ScrollIdle /\ SelIdle /\ MouseIdle /\ StickyIdle /\ TuiIdle /\ FilterIdle
    /\ SearchIdle /\ PaletteIdle /\ ActionIdle /\ VimIdle /\ ToolIdle
    /\ BlockSearchIdle

\* setChips(chips), then render(width).
ChipsRender ==
    /\ chipsOut = Idle
    /\ chipsOut' = [lines |-> chipsRender(chipsIn.chips, chipsIn.width)]
    /\ UNCHANGED << chipsIn, scrollVars, selVars, mouseVars, stickyVars, tuiVars,
                    filterVars, searchVars, paletteVars, actionVars,
                    vimVars, toolVars, blockSearchVars >>

NextChips == ChipsRender
SpecChips == InitChips /\ [][NextChips]_vars

\* ================================================================ VimEditor
\* packages/coding-agent/examples/extensions/vim-mode.ts, class VimEditor.
\* The editor is a record: the fields of VimEditor, the lines and the cursor
\* of the editor it extends (lines are sequences of character codes, line
\* and col are 0-based), and aborted: whether the latest handleInput gave
\* its Escape on to the editor it extends.  operator is "" for null.
LOWER_I == 105      \* "i"

Position(line, col) == [line |-> line, col |-> col]

\* lines[i] ?? ""
lineOr(lines, i) == IF 0 <= i /\ i < Len(lines) THEN lines[i + 1] ELSE << >>

\* isWhitespace(line[col]); a column outside the line gives undefined, which
\* is not whitespace.
isWhitespace(line, col) == 0 <= col /\ col < Len(line) /\ line[col + 1] = SPACE

\* lines.join("\n")
RECURSIVE joinLines(_)
joinLines(lines) ==
    IF lines = << >> THEN << >>
    ELSE IF Len(lines) = 1 THEN lines[1]
    ELSE lines[1] \o << NEWLINE >> \o joinLines(Tail(lines))

\* lines.splice(start, deleteCount)
splice(lines, start, deleteCount) ==
    slice(lines, 0, start) \o slice(lines, start + deleteCount, Len(lines))

getCount(self) == IF self.count = 0 THEN 1 ELSE self.count

resetState(self) ==
    [self EXCEPT !.operator = "", !.count = 0, !.pendingG = FALSE,
                 !.pendingR = FALSE, !.statusMessage = ""]

setMode(self, mode) ==
    resetState([self EXCEPT
                   !.mode = mode,
                   !.visualAnchor = IF mode = "visual" \/ mode = "visual-line"
                                    THEN Some(self.cursor) ELSE Null])

\* setCursorPosition: the cursor the navigation keys end at.
setCursorPosition(self, line, col) ==
    LET targetLine == Max(0, Min(line, Len(self.lines) - 1))
        lineContent == lineOr(self.lines, targetLine)
        targetCol == Max(0, Min(col, Max(0, Len(lineContent)
                                            - (IF self.mode = "insert" THEN 0 ELSE 1))))
    IN  [self EXCEPT !.cursor = Position(targetLine, targetCol)]

\* ----------------------------------------------------------------- motions
motionLeft(self, pos, count) == Position(pos.line, Max(0, pos.col - count))

motionRight(self, pos, count) ==
    LET lineLen == Len(lineOr(self.lines, pos.line))
        maxCol == IF self.mode = "insert" THEN lineLen ELSE Max(0, lineLen - 1)
    IN  Position(pos.line, Min(maxCol, pos.col + count))

motionUp(self, pos, count) == Position(Max(0, pos.line - count), pos.col)

motionDown(self, pos, count) ==
    Position(Min(Len(self.lines) - 1, pos.line + count), pos.col)

motionLineStart(self, pos) == Position(pos.line, 0)

motionLineEnd(self, pos) ==
    LET lineLen == Len(lineOr(self.lines, pos.line))
    IN  Position(pos.line, Max(0, lineLen - (IF self.mode = "insert" THEN 0 ELSE 1)))

\* The first column from col on that is past the line or where whitespace
\* is not as wanted.
RECURSIVE skipForward(_, _, _)
skipForward(line, col, whitespace) ==
    IF col < Len(line) /\ isWhitespace(line, col) = whitespace
    THEN skipForward(line, col + 1, whitespace)
    ELSE col

motionFirstNonWhitespace(self, pos) ==
    LET line == lineOr(self.lines, pos.line)
        col == skipForward(line, 0, TRUE)
    IN  Position(pos.line, Min(col, Max(0, Len(line) - 1)))

RECURSIVE motionWordForward(_, _, _)
motionWordForward(self, pos, count) ==
    IF count <= 0 THEN pos
    ELSE
    LET currentLine == lineOr(self.lines, pos.line)
        col == skipForward(currentLine, skipForward(currentLine, pos.col, FALSE), TRUE)
        next == IF col >= Len(currentLine) /\ pos.line < Len(self.lines) - 1
                THEN Position(pos.line + 1,
                              skipForward(lineOr(self.lines, pos.line + 1), 0, TRUE))
                ELSE Position(pos.line, col)
    IN  motionWordForward(self, next, count - 1)

\* while (col > 0 && isWhitespace(line[col])) col--
RECURSIVE skipBackOverWhitespace(_, _)
skipBackOverWhitespace(line, col) ==
    IF col > 0 /\ isWhitespace(line, col) THEN skipBackOverWhitespace(line, col - 1)
    ELSE col

\* while (col > 0 && !isWhitespace(line[col - 1])) col--
RECURSIVE skipBackOverWord(_, _)
skipBackOverWord(line, col) ==
    IF col > 0 /\ ~isWhitespace(line, col - 1) THEN skipBackOverWord(line, col - 1)
    ELSE col

RECURSIVE motionWordBackward(_, _, _)
motionWordBackward(self, pos, count) ==
    IF count <= 0 THEN pos
    ELSE
    LET currentLine == lineOr(self.lines, pos.line)
        next == IF pos.col = 0 /\ pos.line > 0
                THEN Position(pos.line - 1, Len(lineOr(self.lines, pos.line - 1)) - 1)
                ELSE Position(pos.line,
                              skipBackOverWord(currentLine,
                                  skipBackOverWhitespace(currentLine,
                                      IF pos.col > 0 THEN pos.col - 1 ELSE pos.col)))
    IN  motionWordBackward(self, next, count - 1)

\* while (col < line.length - 1 && !isWhitespace(line[col + 1])) col++
RECURSIVE skipToWordEnd(_, _)
skipToWordEnd(line, col) ==
    IF col < Len(line) - 1 /\ ~isWhitespace(line, col + 1)
    THEN skipToWordEnd(line, col + 1)
    ELSE col

RECURSIVE motionWordEnd(_, _, _)
motionWordEnd(self, pos, count) ==
    IF count <= 0 THEN pos
    ELSE
    LET currentLine == lineOr(self.lines, pos.line)
        col == skipForward(currentLine, pos.col + 1, TRUE)
        moved == IF col >= Len(currentLine) /\ pos.line < Len(self.lines) - 1
                 THEN Position(pos.line + 1,
                               skipForward(lineOr(self.lines, pos.line + 1), 0, TRUE))
                 ELSE Position(pos.line, col)
        next == Position(moved.line,
                         skipToWordEnd(lineOr(self.lines, moved.line), moved.col))
    IN  motionWordEnd(self, next, count - 1)

motionDocumentStart == Position(0, 0)

motionDocumentEnd(self) == Position(Len(self.lines) - 1, 0)

MotionKeys == {"h", "j", "k", "l", "w", "b", "e", "0", "$", "^", "G"}

\* executeMotion: Null for a key that is no motion.
executeMotion(self, key) ==
    LET cursor == self.cursor
        count == getCount(self)
    IN  CASE key = "h" -> Some(motionLeft(self, cursor, count))
          [] key = "l" -> Some(motionRight(self, cursor, count))
          [] key = "j" -> Some(motionDown(self, cursor, count))
          [] key = "k" -> Some(motionUp(self, cursor, count))
          [] key = "w" -> Some(motionWordForward(self, cursor, count))
          [] key = "b" -> Some(motionWordBackward(self, cursor, count))
          [] key = "e" -> Some(motionWordEnd(self, cursor, count))
          [] key = "0" -> Some(motionLineStart(self, cursor))
          [] key = "$" -> Some(motionLineEnd(self, cursor))
          [] key = "^" -> Some(motionFirstNonWhitespace(self, cursor))
          [] key = "G" -> Some(IF self.count > 0 THEN Position(self.count - 1, 0)
                               ELSE motionDocumentEnd(self))
          [] OTHER -> Null

\* ------------------------------------------------------ text and selection
\* text.split("\n")
RECURSIVE splitLines(_)
splitLines(text) ==
    LET breaks == { k \in 1..Len(text) : text[k] = NEWLINE }
    IN  IF breaks = {} THEN << text >>
        ELSE LET first == CHOOSE k \in breaks : \A j \in breaks : k <= j
             IN  << SubSeq(text, 1, first - 1) >>
                     \o splitLines(SubSeq(text, first + 1, Len(text)))

\* setText(lines.join("\n")); the cursor is set by the setCursorPosition
\* that follows every call.
setText(self, lines) == [self EXCEPT !.lines = splitLines(joinLines(lines))]

setLine(lines, i, line) == [lines EXCEPT ![i + 1] = line]

\* Whether position a is before position b, or at it when orEqual.
isBefore(a, b, orEqual) ==
    \/ a.line < b.line
    \/ a.line = b.line /\ (a.col < b.col \/ (orEqual /\ a.col = b.col))

\* The text from start to end, both included.
textBetween(lines, start, end) ==
    IF start.line = end.line
    THEN slice(lineOr(lines, start.line), start.col, end.col + 1)
    ELSE joinLines([k \in 1..(end.line - start.line + 1) |->
                      LET i == start.line + k - 1
                          line == lineOr(lines, i)
                      IN  IF i = start.line THEN slice(line, start.col, Len(line))
                          ELSE IF i = end.line THEN slice(line, 0, end.col + 1)
                          ELSE line])

\* The lines without the text from start to end.
linesWithout(lines, start, end) ==
    IF start.line = end.line
    THEN LET line == lineOr(lines, start.line)
         IN  setLine(lines, start.line,
                     slice(line, 0, start.col) \o slice(line, end.col + 1, Len(line)))
    ELSE LET firstLine == lineOr(lines, start.line)
             lastLine == lineOr(lines, end.line)
         IN  splice(setLine(lines, start.line,
                            slice(firstLine, 0, start.col)
                                \o slice(lastLine, end.col + 1, Len(lastLine))),
                    start.line + 1, end.line - start.line)

\* Null without an anchor.
getVisualRange(self) ==
    IF self.visualAnchor = Null THEN Null
    ELSE
    LET cursor == self.cursor
        anchor == self.visualAnchor[1]
        start == IF isBefore(anchor, cursor, TRUE) THEN anchor ELSE cursor
        end == IF isBefore(anchor, cursor, TRUE) THEN cursor ELSE anchor
    IN  IF self.mode = "visual-line"
        THEN Some([start |-> Position(start.line, 0),
                   end |-> Position(end.line, Len(lineOr(self.lines, end.line)))])
        ELSE Some([start |-> start, end |-> end])

getSelectedText(self) ==
    LET range == getVisualRange(self)
    IN  IF range = Null THEN << >>
        ELSE textBetween(self.lines, range[1].start, range[1].end)

deleteSelection(self) ==
    LET range == getVisualRange(self)
    IN  IF range = Null THEN self
        ELSE
        LET start == range[1].start
            end == range[1].end
        IN  IF self.mode = "visual-line"
            THEN LET spliced == splice(self.lines, start.line, end.line - start.line + 1)
                     lines == IF spliced = << >> THEN << << >> >> ELSE spliced
                     newLine == Min(start.line, Len(lines) - 1)
                 IN  setCursorPosition(setText(self, lines), newLine, 0)
            ELSE setCursorPosition(setText(self, linesWithout(self.lines, start, end)),
                                   start.line, start.col)

\* --------------------------------------------------------------- operators
\* cw on a word is ce.
effectiveMotionOf(self, operator, motion) ==
    LET currentLine == lineOr(self.lines, self.cursor.line)
    IN  IF operator = "c" /\ motion = "w"
           /\ self.cursor.col < Len(currentLine)
           /\ ~isWhitespace(currentLine, self.cursor.col)
        THEN "e" ELSE motion

\* The earlier and the later of the cursor and the target of the motion.
rangeStart(cursor, target) == IF isBefore(cursor, target, FALSE) THEN cursor ELSE target
rangeReached(cursor, target) == IF isBefore(cursor, target, FALSE) THEN target ELSE cursor

\* The last position of the range: w stops before the position it reached.
rangeEnd(lines, effectiveMotion, start, reached) ==
    IF effectiveMotion = "w" /\ (reached.line > start.line \/ reached.col > start.col)
    THEN IF reached.col > 0 THEN Position(reached.line, reached.col - 1)
         ELSE IF reached.line > 0
         THEN Position(reached.line - 1,
                       Max(0, Len(lineOr(lines, reached.line - 1)) - 1))
         ELSE reached
    ELSE reached

\* The operator on the text from start to end.
operatorOnRange(self, operator, start, end) ==
    IF operator = "y"
    THEN resetState([self EXCEPT !.register = textBetween(self.lines, start, end),
                                 !.statusMessage = "Yanked"])
    ELSE IF operator = "d" \/ operator = "c"
    THEN LET deleted == setText([self EXCEPT !.register =
                                     textBetween(self.lines, start, end)],
                                linesWithout(self.lines, start, end))
         IN  resetState(setCursorPosition(
                            IF operator = "c" THEN setMode(deleted, "insert")
                            ELSE deleted,
                            start.line, start.col))
    ELSE resetState(self)

operatorOnTarget(self, operator, effectiveMotion, target) ==
    operatorOnRange(self, operator,
                    rangeStart(self.cursor, target),
                    rangeEnd(self.lines, effectiveMotion,
                             rangeStart(self.cursor, target),
                             rangeReached(self.cursor, target)))

executeOperatorMotion(self, operator, motion) ==
    LET effectiveMotion == effectiveMotionOf(self, operator, motion)
    IN  IF executeMotion(self, effectiveMotion) = Null THEN self
        ELSE operatorOnTarget(self, operator, effectiveMotion,
                              executeMotion(self, effectiveMotion)[1])

executeLineOperator(self, operator) ==
    LET cursor == self.cursor
        count == getCount(self)
        lines == self.lines
        endLine == Min(cursor.line + count - 1, Len(lines) - 1)
        text == joinLines(slice(lines, cursor.line, endLine + 1)) \o << NEWLINE >>
    IN  IF operator = "y"
        THEN resetState([self EXCEPT !.register = text, !.statusMessage = "Yanked"])
        ELSE IF operator = "d" \/ operator = "c"
        THEN LET spliced == splice(lines, cursor.line, endLine - cursor.line + 1)
                 rest == IF spliced = << >> THEN << << >> >> ELSE spliced
                 newLine == Min(cursor.line, Len(rest) - 1)
                 deleted == setCursorPosition(
                                setText([self EXCEPT !.register = text], rest),
                                newLine, 0)
             IN  IF operator = "c"
                 THEN resetState(setMode(
                          setCursorPosition(
                              setText(deleted,
                                      slice(deleted.lines, 0, newLine) \o << << >> >>
                                          \o slice(deleted.lines, newLine,
                                                   Len(deleted.lines))),
                              newLine, 0),
                          "insert"))
                 ELSE resetState(deleted)
        ELSE resetState(self)

\* ------------------------------------------------------------- handleInput
\* super.handleInput("\x1b[D"): the cursor one column to the left.
superLeft(self) == [self EXCEPT !.cursor.col = @ - 1]

\* super.handleInput(data) for one character: the character at the cursor,
\* the cursor after it.
superInsert(self, code) ==
    LET line == lineOr(self.lines, self.cursor.line)
    IN  [self EXCEPT
            !.lines = setLine(self.lines, self.cursor.line,
                              slice(line, 0, self.cursor.col) \o << code >>
                                  \o slice(line, self.cursor.col, Len(line))),
            !.cursor.col = @ + 1]

\* Faulty variant: Escape in normal mode is always given on.
escapeHeldNever(self) == FALSE

\* Whether Escape in normal mode is kept from the app.
escapeHeld(self) ==
    self.operator # "" \/ self.count > 0 \/ self.pendingG \/ self.pendingR

\* The part of handleInput for the second g of gg.
secondG(self) ==
    LET pos == motionDocumentStart
    IN  IF self.mode = "visual" \/ self.mode = "visual-line"
        THEN resetState(setCursorPosition(self, pos.line, pos.col))
        ELSE IF self.operator # ""
        THEN LET moved == setCursorPosition(
                              [self EXCEPT !.visualAnchor = Some(self.cursor),
                                           !.mode = "visual"],
                              pos.line, pos.col)
                 taken == deleteSelection(
                              [moved EXCEPT !.register = getSelectedText(moved)])
                 normal == setMode(taken, "normal")
             IN  resetState(IF normal.operator = "c" THEN setMode(normal, "insert")
                            ELSE normal)
        ELSE resetState(setCursorPosition(self, pos.line, pos.col))

\* The part of handleInput after the handling of a pending g, for the keys
\* of VimKeys.
afterPendingG(self, key) ==
    IF self.mode \in {"visual", "visual-line"} /\ key \in {"d", "x", "c", "y"}
    THEN LET taken == [self EXCEPT !.register = getSelectedText(self)]
         IN  IF key = "y"
             THEN resetState(setMode([taken EXCEPT !.statusMessage = "Yanked"],
                                     "normal"))
             ELSE resetState(setMode(deleteSelection(taken),
                                     IF key = "c" THEN "insert" ELSE "normal"))
    ELSE IF self.mode = "normal" /\ key \in {"d", "c", "y"}
    THEN IF self.operator = key THEN executeLineOperator(self, key)
         ELSE [self EXCEPT !.operator = key]
    ELSE IF key \in MotionKeys
    THEN LET newPos == executeMotion(self, key)
         IN  IF self.operator # "" /\ self.mode = "normal"
             THEN executeOperatorMotion(self, self.operator, key)
             ELSE resetState(setCursorPosition(self, newPos[1].line, newPos[1].col))
    ELSE IF key = "g" THEN [self EXCEPT !.pendingG = TRUE]
    ELSE IF self.mode = "normal" /\ key = "i" THEN setMode(self, "insert")
    ELSE IF self.mode = "normal" /\ key = "v" THEN setMode(self, "visual")
    ELSE IF self.mode = "normal" /\ key = "V" THEN setMode(self, "visual-line")
    ELSE IF self.mode = "normal" /\ key = "r" THEN [self EXCEPT !.pendingR = TRUE]
    ELSE resetState(self)

\* handleInput for the keys of VimKeys.  The field escape records what the
\* latest call did with Escape: "mode" (left the mode), "reset" (dropped the
\* pending state), "app" (gave it to super.handleInput), "none" (other key).
vimHandleInput(editor, data) ==
    LET self == [editor EXCEPT !.escape = "none"]
    IN  IF data = "escape"
        THEN IF self.mode = "insert"
             THEN LET normal == setMode([self EXCEPT !.escape = "mode"], "normal")
                  IN  IF normal.cursor.col > 0 THEN superLeft(normal) ELSE normal
             ELSE IF self.mode = "visual" \/ self.mode = "visual-line"
             THEN setMode([self EXCEPT !.escape = "mode"], "normal")
             ELSE IF escapeHeld(self) THEN resetState([self EXCEPT !.escape = "reset"])
             ELSE [self EXCEPT !.escape = "app"]
        ELSE IF self.mode = "insert" THEN superInsert(self, LOWER_I)
        ELSE IF self.pendingR
        THEN LET line == lineOr(self.lines, self.cursor.line)
             IN  resetState(
                     IF self.cursor.col < Len(line)
                     THEN setCursorPosition(
                              setText(self,
                                      setLine(self.lines, self.cursor.line,
                                              slice(line, 0, self.cursor.col)
                                                  \o << LOWER_I >>
                                                  \o slice(line, self.cursor.col + 1,
                                                           Len(line)))),
                              self.cursor.line, self.cursor.col)
                     ELSE self)
        ELSE IF data = "2" \/ (self.count > 0 /\ data = "0")
        THEN [self EXCEPT !.count = @ * 10 + (IF data = "2" THEN 2 ELSE 0)]
        ELSE IF self.pendingG
        THEN IF data = "g" THEN secondG(self)
             ELSE afterPendingG(resetState(self), data)
        ELSE afterPendingG(self, data)

\* A new editor holding a text, the cursor where the base editor has it.
NewVimEditor(lines, cursor) ==
    [mode |-> "insert", operator |-> "", count |-> 0, register |-> << >>,
     visualAnchor |-> Null, pendingG |-> FALSE, pendingR |-> FALSE,
     statusMessage |-> "", lines |-> lines, cursor |-> cursor,
     escape |-> "none"]

\* -------------------------------------------------------------- vim inputs
MaxTyped == 1       \* SpecVim: most characters typed in insert mode
MaxVimCount == 2    \* SpecVim: largest count typed
MaxKeys == 6        \* SpecVim: most keys handled in one run

\* The texts the editor starts with: "", "ab", "a b" and "b" in two lines.
VimTexts ==
    { << << >> >>,
      << << LOWER_A, LOWER_B >> >>,
      << << LOWER_A, SPACE, LOWER_B >>, << LOWER_B >> >> }

\* Escape, and keys of one character.  In insert mode and after r the
\* character taken is "i".
VimKeys ==
    MotionKeys \cup {"escape", "i", "v", "V", "r", "d", "c", "y", "g", "2"}

InitVim ==
    /\ \E lines \in VimTexts :
          \E line \in 0..(Len(lines) - 1) :
             \E col \in 0..Len(lines[line + 1]) :
                vim = NewVimEditor(lines, Position(line, col))
    /\ vimKey = "new"
    /\ vimTyped = 0
    /\ vimHandled = 0
    /\ ScrollIdle /\ SelIdle /\ MouseIdle /\ StickyIdle /\ TuiIdle /\ FilterIdle
    /\ SearchIdle /\ PaletteIdle /\ ActionIdle /\ ChipsIdle /\ ToolIdle
    /\ BlockSearchIdle

VimHandleInput(data) ==
    LET typing == data # "escape" /\ (vim.mode = "insert" \/ vim.pendingR)
        handled == vimHandleInput(vim, data)
    IN  /\ vimHandled < MaxKeys
        /\ typing => (data = "i" /\ vimTyped < MaxTyped)
        /\ handled.count <= MaxVimCount
        /\ vim' = handled
        /\ vimKey' = data
        /\ vimTyped' = IF typing THEN vimTyped + 1 ELSE vimTyped
        /\ vimHandled' = vimHandled + 1
        /\ UNCHANGED << scrollVars, selVars, mouseVars, stickyVars, tuiVars,
                        filterVars, searchVars, paletteVars, actionVars, chipsVars,
                        toolVars, blockSearchVars >>

NextVim == \E data \in VimKeys : VimHandleInput(data)
SpecVim == InitVim /\ [][NextVim]_vars

\* ==================================================================
\* ToolExecutionComponent (coding-agent): the edit-diff preview and the
\* cached output-filter result.  The handlers are operators on the
\* component; the field display records what the latest updateDisplay built.
\* ==================================================================
CR == 13            \* "\r"

\* theme.fg("toolOutput", line): the line in a colour.
styled(line) == << 400 >> \o line

\* imageFallback(mimeType, dims): the line standing for an image that is
\* not drawn, "[a" here.
imageFallback == << LBRACKET, LOWER_A >>

supportsOutputFilter(self) == self.toolName # "edit"

\* getCapabilities().images && showImages && expanded
canRenderImages(self) == self.capsImages /\ self.showImages /\ self.expanded

\* The text blocks of the result, cleaned and joined, then a line for every
\* image that is not drawn.
getTextOutput(self) ==
    IF self.result = Null THEN << >>
    ELSE
    LET result == self.result[1]
        cleaned == [k \in 1..Len(result.text) |->
                       SelectSeq(stripAnsi(result.text[k]), LAMBDA c : c # CR)]
        output == joinLines(cleaned)
        imageIndicators == joinLines([k \in 1..result.images |-> imageFallback])
    IN  IF result.images > 0 /\ ~canRenderImages(self)
        THEN IF output # << >> THEN output \o << NEWLINE >> \o imageIndicators
             ELSE imageIndicators
        ELSE output

\* The raw lines updateDisplay takes from the output; Null without output.
outputLines(self) ==
    LET output == trim(getTextOutput(self))
    IN  IF self.result = Null \/ output = << >> THEN Null
        ELSE Some(splitLines(output))

\* The component after getOutputFilterResult, the result it returned in
\* the field filterResult.
toolGetOutputFilterResult(self, rawLines, displayLines) ==
    IF self.outputFilter = Null \/ ~supportsOutputFilter(self)
    THEN [self EXCEPT !.display.filterResult = Null]
    ELSE
    LET normalized == normalizeOutputFilter(self.outputFilter[1])
        filterKey == normalized
        cache == self.outputFilterCache
    IN  IF normalized.query = << >>
        THEN [self EXCEPT !.display.filterResult = Null]
        ELSE IF cache # Null
                /\ cache[1].outputVersion = self.outputVersion
                /\ cache[1].filterKey = filterKey
        THEN [self EXCEPT !.display.filterResult = cache[1].result]
        ELSE LET result == applyOutputFilter(rawLines, displayLines, Some(normalized))
             IN  [self EXCEPT
                     !.outputFilterCache =
                         Some([outputVersion |-> self.outputVersion,
                               filterKey |-> filterKey,
                               result |-> result]),
                     !.display.filterResult = result]

\* updateDisplay: for edit the preview shown with the args, for the other
\* tools the output lines through the filter.
updateDisplay(self) ==
    LET cleared == [self EXCEPT !.display = [filtering |-> FALSE,
                                             filterResult |-> Null,
                                             preview |-> Null]]
    IN  IF self.toolName = "edit"
        THEN [cleared EXCEPT !.display.preview =
                 IF self.result # Null THEN Null ELSE self.editDiffPreview]
        ELSE LET rawLines == outputLines(self)
             IN  IF rawLines = Null THEN cleared
                 ELSE toolGetOutputFilterResult(
                          [cleared EXCEPT !.display.filtering = TRUE],
                          rawLines[1],
                          [k \in 1..Len(rawLines[1]) |-> styled(rawLines[1][k])])

updateArgs(self, args) ==
    updateDisplay([self EXCEPT !.args = args,
                               !.outputVersion = @ + 1,
                               !.outputFilterCache = Null])

\* JSON.stringify({ path, oldText, newText })
argsKeyOf(args) == << args.path[1], args.oldText[1], args.newText[1] >>

\* Whether maybeComputeEditDiff starts a computation.
startsEditDiff(self) ==
    /\ self.toolName = "edit"
    /\ self.args.path # Null /\ self.args.path # Some("")
    /\ self.args.oldText # Null /\ self.args.newText # Null
    /\ self.editDiffArgsKey # Some(argsKeyOf(self.args))

maybeComputeEditDiff(self) ==
    IF startsEditDiff(self)
    THEN [self EXCEPT !.editDiffArgsKey = Some(argsKeyOf(self.args))]
    ELSE self

setArgsComplete(self) == maybeComputeEditDiff(self)

\* computeEditDiff(path, oldText, newText, cwd): the diff of these args.
computeEditDiff(argsKey) == [diffOf |-> argsKey]

\* Whether the callback of a computation stores its result.
stores(self, argsKey) == self.editDiffArgsKey = Some(argsKey)

\* The callback of computeEditDiff(...).then.
editDiffComputed(self, argsKey) ==
    IF stores(self, argsKey)
    THEN updateDisplay([self EXCEPT !.editDiffPreview = Some(computeEditDiff(argsKey))])
    ELSE self

updateResult(self, result, isPartial) ==
    updateDisplay([self EXCEPT !.result = Some(result),
                               !.isPartial = isPartial,
                               !.outputVersion = @ + 1,
                               !.outputFilterCache = Null])

setExpanded(self, expanded) == updateDisplay([self EXCEPT !.expanded = expanded])

setShowImages(self, show) == updateDisplay([self EXCEPT !.showImages = show])

setOutputFilter(self, filter) ==
    updateDisplay([self EXCEPT !.outputFilter = filter, !.outputFilterCache = Null])

invalidate(self) == updateDisplay(self)

NewToolExecutionComponent(toolName, args, showImages, capsImages) ==
    updateDisplay(
        [toolName |-> toolName, args |-> args, result |-> Null, isPartial |-> TRUE,
         expanded |-> FALSE, showImages |-> showImages, capsImages |-> capsImages,
         outputFilter |-> Null, outputFilterCache |-> Null, outputVersion |-> 0,
         editDiffPreview |-> Null, editDiffArgsKey |-> Null,
         display |-> [filtering |-> FALSE, filterResult |-> Null, preview |-> Null]])

\* ------------------------------------------------------------- tool inputs
MaxVersion == 3         \* most updateArgs and updateResult calls of one run
MaxComputations == 3    \* most edit-diff computations started in one run

\* Args of the edit tool as they arrive: with and without path and oldText.
EditArgs ==
    [path : {Null, Some("f")}, oldText : {Null, Some("a")},
     newText : {Some("x"), Some("y")}]

NoArgs == [path |-> Null, oldText |-> Null, newText |-> Null]

ToolResults ==
    [text : { << >>, << << LOWER_A >> >>,
              << << LOWER_B, NEWLINE, LOWER_A, CR >> >>,
              << << LOWER_B >>, << LOWER_B >> >> },
     images : {0, 1}]

ToolFilters ==
    {Null} \cup
    { Some([query |-> q, mode |-> "text", caseSensitive |-> FALSE,
            invert |-> i, contextLines |-> 0]) :
        q \in { << LOWER_A >>, << SPACE, LOWER_A >>, << LOWER_B >> },
        i \in BOOLEAN }

ToolQuiet ==
    /\ ScrollIdle /\ SelIdle /\ MouseIdle /\ StickyIdle /\ TuiIdle /\ FilterIdle
    /\ SearchIdle /\ PaletteIdle /\ ActionIdle /\ ChipsIdle /\ VimIdle
    /\ BlockSearchIdle

toolRest ==
    << scrollVars, selVars, mouseVars, stickyVars, tuiVars, filterVars, searchVars,
       paletteVars, actionVars, chipsVars, vimVars, blockSearchVars >>

\* ----------------------------------------------------------- tool actions
UpdateArgs(args) ==
    /\ tool.outputVersion < MaxVersion
    /\ tool' = updateArgs(tool, args)
    /\ toolOp' = "updateArgs"
    /\ UNCHANGED << toolFlight, toolStarted, toolRest >>

\* setArgsComplete, and the computation it starts in flight.
SetArgsComplete ==
    /\ startsEditDiff(tool) => toolStarted < MaxComputations
    /\ tool' = setArgsComplete(tool)
    /\ toolFlight' = IF startsEditDiff(tool)
                     THEN toolFlight \cup {[id |-> toolStarted + 1,
                                            argsKey |-> argsKeyOf(tool.args)]}
                     ELSE toolFlight
    /\ toolStarted' = IF startsEditDiff(tool) THEN toolStarted + 1 ELSE toolStarted
    /\ toolOp' = "setArgsComplete"
    /\ UNCHANGED toolRest

\* A computation in flight ends and its callback runs.
EditDiffComputed(computation) ==
    /\ computation \in toolFlight
    /\ tool' = editDiffComputed(tool, computation.argsKey)
    /\ toolFlight' = toolFlight \ {computation}
    /\ toolOp' = "editDiffComputed"
    /\ UNCHANGED << toolStarted, toolRest >>

UpdateResult(result, isPartial) ==
    /\ tool.outputVersion < MaxVersion
    /\ tool' = updateResult(tool, result, isPartial)
    /\ toolOp' = "updateResult"
    /\ UNCHANGED << toolFlight, toolStarted, toolRest >>

SetExpanded(expanded) ==
    /\ tool' = setExpanded(tool, expanded)
    /\ toolOp' = "setExpanded"
    /\ UNCHANGED << toolFlight, toolStarted, toolRest >>

SetShowImages(show) ==
    /\ tool' = setShowImages(tool, show)
    /\ toolOp' = "setShowImages"
    /\ UNCHANGED << toolFlight, toolStarted, toolRest >>

SetOutputFilter(filter) ==
    /\ tool' = setOutputFilter(tool, filter)
    /\ toolOp' = "setOutputFilter"
    /\ UNCHANGED << toolFlight, toolStarted, toolRest >>

Invalidate ==
    /\ tool' = invalidate(tool)
    /\ toolOp' = "invalidate"
    /\ UNCHANGED << toolFlight, toolStarted, toolRest >>

\* The edit tool while its args arrive.
InitEditDiff ==
    /\ \E args \in {NoArgs} \cup EditArgs :
          tool = NewToolExecutionComponent("edit", args, TRUE, FALSE)
    /\ toolFlight = {}
    /\ toolStarted = 0
    /\ toolOp = "new"
    /\ ToolQuiet

NextEditDiff ==
    \/ \E args \in EditArgs : UpdateArgs(args)
    \/ SetArgsComplete
    \/ \E computation \in toolFlight : EditDiffComputed(computation)

SpecEditDiff == InitEditDiff /\ [][NextEditDiff]_vars

\* A tool with text output, on terminals with and without images.
InitToolOutput ==
    /\ \E showImages \in BOOLEAN, capsImages \in BOOLEAN :
          tool = NewToolExecutionComponent("bash", NoArgs, showImages, capsImages)
    /\ toolFlight = {}
    /\ toolStarted = 0
    /\ toolOp = "new"
    /\ ToolQuiet

NextToolOutput ==
    \/ UpdateArgs(NoArgs)
    \/ \E result \in ToolResults, isPartial \in BOOLEAN : UpdateResult(result, isPartial)
    \/ \E filter \in ToolFilters : SetOutputFilter(filter)
    \/ \E expanded \in BOOLEAN : SetExpanded(expanded)
    \/ \E show \in BOOLEAN : SetShowImages(show)
    \/ Invalidate

SpecToolOutput == InitToolOutput /\ [][NextToolOutput]_vars

\* ==================================================================
\* BlockSearchComponent (coding-agent): the search of a block's text as
\* the query is typed, delayed by a timer.  The fields timers and timerCount
\* are the timers of the runtime: every setTimeout adds one, clearTimeout and
\* its firing remove it.  selected and cancelled count the calls of onSelect
\* and onCancel; searched and rebuilt tell whether the latest handler called
\* searchTextByLine and updateDisplay.
\* ==================================================================
MAX_RESULTS == 200
MAX_SCAN_LINES == 20000
SEARCH_DELAY == 120     \* milliseconds

\* setTimeout(callback, delay): the component with one more timer, its
\* handle in searchTimer.
setTimeout(self, delay) ==
    [self EXCEPT !.timers = @ \cup {[id |-> self.timerCount + 1, remaining |-> delay]},
                 !.timerCount = @ + 1,
                 !.searchTimer = Some(self.timerCount + 1)]

clearTimeout(self, id) ==
    [self EXCEPT !.timers = { t \in @ : t.id # id }]

clearSearchTimer(self) ==
    IF self.searchTimer = Null THEN self
    ELSE [clearTimeout(self, self.searchTimer[1]) EXCEPT !.searchTimer = Null]

scheduleSearch(self) ==
    setTimeout(IF self.searchTimer # Null
               THEN clearTimeout(self, self.searchTimer[1])
               ELSE self,
               SEARCH_DELAY)

performSearch(self) ==
    LET query == self.value
    IN  IF query = self.lastQuery THEN self
        ELSE
        LET summary == searchTextByLine(self.text, query,
                                        [caseSensitive |-> Some(FALSE),
                                         maxResults |-> Some(MAX_RESULTS),
                                         maxScanLines |-> Some(MAX_SCAN_LINES)])
        IN  [self EXCEPT
                !.lastQuery = query,
                !.results = summary.results,
                !.searched = TRUE,
                !.selectedIndex = IF @ >= Len(summary.results)
                                  THEN Max(0, Len(summary.results) - 1) ELSE @]

\* updateDisplay: the list is built again.
blockSearchUpdateDisplay(self) == [self EXCEPT !.rebuilt = TRUE]

moveSelection(self, delta) ==
    IF Len(self.results) = 0 THEN self
    ELSE LET next == Max(0, Min(Len(self.results) - 1, self.selectedIndex + delta))
         IN  IF next = self.selectedIndex THEN self
             ELSE blockSearchUpdateDisplay([self EXCEPT !.selectedIndex = next])

confirmSelection(self) ==
    IF self.selectedIndex >= Len(self.results) THEN self
    ELSE [clearSearchTimer(self) EXCEPT !.selected = @ + 1]

\* Input.handleInput of the query input: its submit key calls onSubmit,
\* which is confirmSelection; other keys edit the value.
queryHandleInput(self, data) ==
    IF data = "submit" THEN confirmSelection(self)
    ELSE [self EXCEPT !.value = inputHandleInput(self.value, data)]

blockSearchHandleInput(self, data) ==
    IF data = "selectCancel"
    THEN [clearSearchTimer(self) EXCEPT !.cancelled = @ + 1]
    ELSE IF data = "j" \/ data = "selectDown" THEN moveSelection(self, 1)
    ELSE IF data = "k" \/ data = "selectUp" THEN moveSelection(self, -1)
    ELSE IF data = "selectConfirm" THEN confirmSelection(self)
    ELSE scheduleSearch(queryHandleInput(self, data))

\* The callback of the timer.
searchTimerFired(self, id) ==
    blockSearchUpdateDisplay(
        performSearch([self EXCEPT !.timers = { t \in @ : t.id # id },
                                   !.searchTimer = Null]))

NewBlockSearchComponent(text) ==
    blockSearchUpdateDisplay(performSearch(
        [text |-> text, value |-> << >>, lastQuery |-> << >>, results |-> << >>,
         selectedIndex |-> 0, searchTimer |-> Null, timers |-> {}, timerCount |-> 0,
         selected |-> 0, cancelled |-> 0, searched |-> FALSE, rebuilt |-> FALSE]))

\* ----------------------------------------------------- block search inputs
MaxQuery == 2       \* SpecBlockSearch: most characters of the query
MaxTimers == 4      \* SpecBlockSearch: most timers set in one run
TickLength == 60    \* SpecBlockSearch: milliseconds passing in one step

\* "a", "b", and "a" and "ab" in two lines
BlockTexts ==
    { << LOWER_A >>, << LOWER_B >>, << LOWER_A, NEWLINE, LOWER_A, LOWER_B >> }

\* "submit" is a key the query input takes as its submit and the component
\* does not take as selectConfirm.
BlockSearchKeys ==
    {"selectCancel", "selectDown", "selectUp", "selectConfirm", "j", "k",
     "submit", "backspace", "a", "b"}

InitBlockSearch ==
    /\ \E text \in BlockTexts : blockSearch = NewBlockSearchComponent(text)
    /\ blockSearchOp = "new"
    /\ ScrollIdle /\ SelIdle /\ MouseIdle /\ StickyIdle /\ TuiIdle /\ FilterIdle
    /\ SearchIdle /\ PaletteIdle /\ ActionIdle /\ ChipsIdle /\ VimIdle /\ ToolIdle

blockSearchRest ==
    << scrollVars, selVars, mouseVars, stickyVars, tuiVars, filterVars, searchVars,
       paletteVars, actionVars, chipsVars, vimVars, toolVars >>

\* The palette is closed by the app when onSelect or onCancel is called.
Closed == blockSearch.selected > 0 \/ blockSearch.cancelled > 0

\* A key reaches the open palette.
BlockSearchHandleInput(data) ==
    LET handled == blockSearchHandleInput(
                       [blockSearch EXCEPT !.searched = FALSE, !.rebuilt = FALSE], data)
    IN  /\ ~Closed
        /\ Len(handled.value) <= MaxQuery
        /\ handled.timerCount <= MaxTimers
        /\ blockSearch' = handled
        /\ blockSearchOp' = data
        /\ UNCHANGED blockSearchRest

\* Time passes, not beyond the moment a timer is due.
Tick ==
    /\ blockSearch.timers # {}
    /\ \A t \in blockSearch.timers : t.remaining >= TickLength
    /\ blockSearch' = [blockSearch EXCEPT !.timers =
                          { [t EXCEPT !.remaining = @ - TickLength] : t \in @ }]
    /\ blockSearchOp' = "tick"
    /\ UNCHANGED blockSearchRest

\* A timer that is due runs its callback.
SearchTimerFired ==
    \E t \in blockSearch.timers :
        /\ t.remaining < TickLength
        /\ blockSearch' = searchTimerFired(
                              [blockSearch EXCEPT !.searched = FALSE, !.rebuilt = FALSE],
                              t.id)
        /\ blockSearchOp' = "timer"
        /\ UNCHANGED blockSearchRest

NextBlockSearch ==
    \/ \E data \in BlockSearchKeys : BlockSearchHandleInput(data)
    \/ Tick
    \/ SearchTimerFired

SpecBlockSearch == InitBlockSearch /\ [][NextBlockSearch]_vars

\* ---------------------------------------------------- claims on SpecSel
HasMarker(line) == \E k \in 1..Len(line) : line[k] \in {INVERSE, RESET}
\* Rows of the frame, 0-based, that carry a marker.
HighlightedRows(frame) == { k - 1 : k \in { j \in 1..Len(frame) : HasMarker(frame[j]) } }

\* C12: in every enabled render, for every selection of the grid, the frame
\* ends with the last min(f, rows) lines of the fixed child, free of markers;
\* only rows below availableHeight carry a marker, none when it is 0.
C12_SelectionStaysInOutput ==
    selOut # Idle =>
        LET a == Available(selIn.f, selIn.r)
            shownFixed == Min(selIn.f, selIn.r)
        IN  /\ Len(selOut.lines) = selIn.r
            /\ SubSeq(selOut.lines, a + 1, selIn.r)
                   = SubSeq(FixedLines(selIn.f), selIn.f - shownFixed + 1, selIn.f)
            /\ \A k \in (a + 1)..selIn.r : ~HasMarker(selOut.lines[k])
            /\ HighlightedRows(selOut.lines) \subseteq 0..(a - 1)
            /\ a = 0 => HighlightedRows(selOut.lines) = {}

\* A selection that ends below the visible output rows highlighted the last
\* output row, and a fixed line follows it.
C12_Witness ==
    /\ selOut # Idle
    /\ selIn.f > 0
    /\ Available(selIn.f, selIn.r) > 0
    /\ selIn.selection.endRow >= Available(selIn.f, selIn.r)
    /\ (Available(selIn.f, selIn.r) - 1) \in HighlightedRows(selOut.lines)

Before(rowA, colA, rowB, colB) == rowA < rowB \/ (rowA = rowB /\ colA <= colB)

\* C13, as stated: for every selection of the grid and every visible line
\* count >= 1, the selection handed to the highlighter has
\* (startRow, startCol) <= (endRow, endCol) lexicographically.
C13_NormalizedOrdered ==
    (selOut # Idle /\ Len(selOut.self.lastVisibleOutputLines) >= 1) =>
        /\ selOut.normalized # Null
        /\ LET sel == selOut.normalized[1]
           IN  Before(sel.startRow, sel.startCol, sel.endRow, sel.endCol)

\* The selection with its ends exchanged when it is given end first, and its
\* rows then brought into 0..count-1.
OrderedSelection(sel) ==
    IF Before(sel.startRow, sel.startCol, sel.endRow, sel.endCol)
    THEN sel
    ELSE Selection(sel.endRow, sel.endCol, sel.startRow, sel.startCol)
WithinRows(sel, count) ==
    [sel EXCEPT !.startRow = Max(0, Min(@, count - 1)),
                !.endRow = Max(0, Min(@, count - 1))]
\* A line without markers with columns [from, to) in inverse video.
Wrapped(line, from, to) ==
    SubSeq(line, 1, from) \o << INVERSE >> \o SubSeq(line, from + 1, to)
        \o << RESET >> \o SubSeq(line, to + 1, Len(line))

Bit(code, weight) == (code \div weight) % 2 = 1
\* A chunk that is one sequence has been decoded.
Decoded == mouseOut # Idle /\ mouseIn.shape \in WellFormedShapes

\* C16: for every well-formed sequence whose code has bit 64 set the result is
\* a scroll event with delta -1 when code & 3 is 0 and +1 when it is 1, and no
\* event when it is 2 or 3, whatever bit 32 and the trailing character are.
C16_Wheel ==
    (Decoded /\ Bit(mouseIn.code, 64)) =>
        LET wheel == mouseIn.code % 4
            event == mouseOut.event
        IN  /\ wheel = 0 =>
                  event # Null /\ event[1].type = "scroll" /\ event[1].delta = -1
            /\ wheel = 1 =>
                  event # Null /\ event[1].type = "scroll" /\ event[1].delta = 1
            /\ wheel \in {2, 3} => event = Null

\* A wheel-down sequence with the motion bit set and a trailing "m" was decoded
\* to a scroll event.
C16_Witness ==
    /\ Decoded
    /\ Bit(mouseIn.code, 64) /\ Bit(mouseIn.code, 32) /\ mouseIn.code % 4 = 1
    /\ mouseIn.final = LOWER_M
    /\ mouseOut.event # Null
    /\ mouseOut.event[1].type = "scroll" /\ mouseOut.event[1].delta = 1

\* C17: for every well-formed sequence whose code has bit 64 clear, code & 3
\* gives left for 0, middle for 1, right for 2 and no event for 3; the action
\* is drag when bit 32 is set, otherwise release for a trailing "m" and press
\* for a trailing "M".
C17_Button ==
    (Decoded /\ ~Bit(mouseIn.code, 64)) =>
        LET buttonCode == mouseIn.code % 4
            event == mouseOut.event
        IN  IF buttonCode = 3 THEN event = Null
            ELSE /\ event # Null
                 /\ event[1].type = "button"
                 /\ event[1].button
                        = << "left", "middle", "right" >>[buttonCode + 1]
                 /\ event[1].action
                        = IF Bit(mouseIn.code, 32) THEN "drag"
                          ELSE IF mouseIn.final = LOWER_M THEN "release"
                          ELSE "press"

\* A right-button sequence with the motion bit set and a trailing "m" was
\* decoded to a drag.
C17_Witness ==
    /\ Decoded
    /\ ~Bit(mouseIn.code, 64) /\ Bit(mouseIn.code, 32) /\ mouseIn.code % 4 = 2
    /\ mouseIn.final = LOWER_M
    /\ mouseOut.event # Null
    /\ mouseOut.event[1].action = "drag" /\ mouseOut.event[1].button = "right"

\* The events parseMouseEvent can return.
Modifiers == [shift : BOOLEAN, alt : BOOLEAN, ctrl : BOOLEAN]
IsEvent(e) ==
    /\ e.x \in Nat /\ e.y \in Nat /\ e.modifiers \in Modifiers
    /\ \/ e.type = "scroll" /\ e.delta \in {-1, 1}
              /\ DOMAIN e = {"type", "delta", "x", "y", "modifiers"}
       \/ e.type = "button" /\ e.action \in {"press", "release", "drag"}
              /\ e.button \in {"left", "middle", "right"}
              /\ DOMAIN e = {"type", "action", "button", "x", "y", "modifiers"}

\* C18: for every chunk parseMouseEvent returns one event or null, and null
\* for every chunk that is not exactly one sequence: a missing field, a field
\* that is not a number, bytes before or after the sequence, two sequences.
C18_Total ==
    mouseOut # Idle =>
        /\ mouseOut.event = Null
               \/ (Len(mouseOut.event) = 1 /\ IsEvent(mouseOut.event[1]))
        /\ mouseIn.shape \in MalformedShapes => mouseOut.event = Null

\* A chunk of two sequences, each of which alone decodes to an event, was
\* decoded to null.
C18_Witness ==
    /\ mouseOut # Idle
    /\ mouseIn.shape = "twice"
    /\ mouseIn.code = 0 /\ mouseIn.x > 0
    /\ mouseOut.event = Null
    /\ parseMouseEvent(Sequence(Decimal(mouseIn.code), Decimal(mouseIn.x),
                                Decimal(mouseIn.y), mouseIn.final)) # Null

\* C19: every event carries x = max(0, X - 1) and y = max(0, Y - 1) for the
\* protocol fields X and Y, and shift, alt, ctrl equal to whether bits 4, 8,
\* 16 of the code are set.
C19_CoordinatesAndModifiers ==
    (Decoded /\ mouseOut.event # Null) =>
        LET event == mouseOut.event[1]
        IN  /\ event.x = (IF mouseIn.x = 0 THEN 0 ELSE mouseIn.x - 1)
            /\ event.y = (IF mouseIn.y = 0 THEN 0 ELSE mouseIn.y - 1)
            /\ event.x >= 0 /\ event.y >= 0
            /\ event.modifiers.shift = Bit(mouseIn.code, 4)
            /\ event.modifiers.alt = Bit(mouseIn.code, 8)
            /\ event.modifiers.ctrl = Bit(mouseIn.code, 16)

\* A button event with X = 0, a larger Y, and shift and ctrl without alt.
C19_Witness ==
    /\ Decoded /\ mouseOut.event # Null
    /\ mouseOut.event[1].type = "button"
    /\ mouseIn.x = 0 /\ mouseIn.y = MaxCoord
    /\ mouseOut.event[1].x = 0 /\ mouseOut.event[1].y = MaxCoord - 1
    /\ mouseOut.event[1].modifiers = [shift |-> TRUE, alt |-> FALSE, ctrl |-> TRUE]

\* ------------------------------------------------- claims on SpecSticky
\* A line that shows nothing: spaces and styling only.
IsBlank(line) == \A k \in 1..Len(line) : line[k] \in {SPACE, INVERSE, RESET}
\* The 0-based index of the header of an input, or -1: the explicit
\* headerIndex when it names a line; without one, the first line with text
\* among the first max(1, scanLimit) lines, scanLimit being 20 if not given.
HeaderOf(in) ==
    LET count == Len(in.lines)
        scan == IF in.options.scanLimit = Null THEN 20 ELSE in.options.scanLimit[1]
        among == { i \in 0..(Min(count, Max(1, scan)) - 1) : ~IsBlank(in.lines[i + 1]) }
    IN  IF in.options.headerIndex # Null
        THEN IF in.options.headerIndex[1] \in 0..(count - 1)
             THEN in.options.headerIndex[1] ELSE -1
        ELSE IF among = {} THEN -1
        ELSE CHOOSE i \in among : \A j \in among : i <= j
\* The viewport top held within the block when a height is given.
ClampedTop(in) ==
    IF in.options.viewportHeight = Null THEN in.viewportTop
    ELSE Min(in.viewportTop, Max(0, Len(in.lines) - in.options.viewportHeight[1]))
\* `out` is `lines` with the line of 0-based index `from` also at index `to`.
HeaderCopied(out, lines, from, to) ==
    /\ Len(out) = Len(lines)
    /\ out[to + 1] = lines[from + 1]
    /\ \A k \in 1..Len(lines) : k # to + 1 => out[k] = lines[k]

\* C20, as stated: for the ten lines with viewportTop = 6 and viewportHeight
\* = 5 the result holds the header's text at index 6 and every other line
\* unchanged; whenever viewportTop is past the header's index (and names a
\* line) the header text is at index viewportTop of the result; at
\* viewportTop = 0 the result is the input.
C20_HeaderAtViewportTop ==
    stickyOut # Idle =>
        /\ stickyIn = Example(6) => HeaderCopied(stickyOut.lines, ExampleLines, 1, 6)
        /\ ( /\ HeaderOf(stickyIn) >= 0
             /\ stickyIn.viewportTop > HeaderOf(stickyIn)
             /\ stickyIn.viewportTop < Len(stickyIn.lines) )
               => stickyOut.lines[stickyIn.viewportTop + 1]
                      = stickyIn.lines[HeaderOf(stickyIn) + 1]
        /\ stickyIn.viewportTop = 0 => stickyOut.lines = stickyIn.lines

\* C20, amended: the header is placed at the clamped top.  For the ten lines
\* with viewportTop = 6 and viewportHeight = 5 the clamped top is 5, and the
\* result holds the header's text at index 5 and every other line unchanged;
\* whenever the clamped top is past the header's index and names a line, the
\* header text is at that index of the result and every other line is
\* unchanged; at viewportTop = 0 the result is the input.
C20_HeaderAtClampedTop ==
    stickyOut # Idle =>
        /\ stickyIn = Example(6) => HeaderCopied(stickyOut.lines, ExampleLines, 1, 5)
        /\ ( /\ HeaderOf(stickyIn) >= 0
             /\ ClampedTop(stickyIn) > HeaderOf(stickyIn)
             /\ ClampedTop(stickyIn) < Len(stickyIn.lines) )
               => HeaderCopied(stickyOut.lines, stickyIn.lines,
                               HeaderOf(stickyIn), ClampedTop(stickyIn))
        /\ stickyIn.viewportTop = 0 => stickyOut.lines = stickyIn.lines

\* The overlay was applied to the ten lines at viewportTop = 6: the header is
\* at index 5 and the line at index 6 is the block's own.
C20_Witness ==
    /\ stickyOut # Idle
    /\ stickyIn = Example(6)
    /\ stickyOut.lines[6] = ExampleLines[2]
    /\ stickyOut.lines[7] = ExampleLines[7]
    /\ stickyOut.lines # ExampleLines

\* The header's index as the options give it, or -1 when there is none: the
\* explicit headerIndex, whatever it is, else the first line with text among
\* the first max(1, scanLimit) lines.
HeaderIndexOf(in) ==
    IF in.options.headerIndex # Null THEN in.options.headerIndex[1]
    ELSE HeaderOf(in)
HasHeader(in) == in.options.headerIndex # Null \/ HeaderOf(in) >= 0
\* The 0-based indices at which two blocks of the same length differ.
Differing(out, lines) == { k - 1 : k \in { j \in 1..Len(lines) : out[j] # lines[j] } }

\* C21: the result has the length of lines and differs from it in at most the
\* index t = ClampedTop, where it is the line at the header's index (the
\* explicit headerIndex, else the first line among the first max(1, scanLimit)
\* with text once styling is stripped); the caller's lines are as they were.
C21_AtMostOneRow ==
    stickyOut # Idle =>
        /\ Len(stickyOut.lines) = Len(stickyIn.lines)
        /\ Differing(stickyOut.lines, stickyIn.lines) \subseteq {ClampedTop(stickyIn)}
        /\ Differing(stickyOut.lines, stickyIn.lines) # {} =>
              /\ HasHeader(stickyIn)
              /\ stickyOut.lines[ClampedTop(stickyIn) + 1]
                     = at(stickyIn.lines, HeaderIndexOf(stickyIn))
        /\ stickyOut.input = stickyIn.lines

\* The header was found behind a line of styled spaces and copied to the top
\* that the viewportHeight hint allows, below the top asked for.
C21_Witness ==
    /\ stickyOut # Idle
    /\ stickyIn.options.headerIndex = Null
    /\ stickyIn.options.viewportHeight # Null
    /\ Len(stickyIn.lines) = 3
    /\ stickyIn.lines[1] = LineOf("blank", 0)
    /\ HeaderOf(stickyIn) = 1
    /\ stickyIn.viewportTop > 2
    /\ Differing(stickyOut.lines, stickyIn.lines) = {2}
    /\ stickyOut.lines[3] = stickyIn.lines[2]

\* C22: the result is lines when lines is empty, when the clamped top is 0 or
\* less, when it is at or past the end of lines, when it is less than or equal
\* to the header's index, and when there is no explicit headerIndex and no
\* line with text within the scan limit.
C22_NoOp ==
    LET already == \/ Len(stickyIn.lines) = 0
                   \/ ClampedTop(stickyIn) <= 0
                   \/ ClampedTop(stickyIn) >= Len(stickyIn.lines)
                   \/ ~HasHeader(stickyIn)
                   \/ ClampedTop(stickyIn) <= HeaderIndexOf(stickyIn)
    IN  (stickyOut # Idle /\ already) => stickyOut.lines = stickyIn.lines

\* Scrolled past a line with text that lies behind the scan limit: no header
\* was found and the lines came back as they were.
C22_Witness ==
    /\ stickyOut # Idle
    /\ stickyOut.lines = stickyIn.lines
    /\ stickyIn.options.headerIndex = Null
    /\ stickyIn.options.scanLimit = Some(1)
    /\ Len(stickyIn.lines) = 3
    /\ ~IsBlank(stickyIn.lines[2]) /\ IsBlank(stickyIn.lines[1])
    /\ ClampedTop(stickyIn) = 2

\* ---------------------------------------------------- claims on SpecTui
\* The calls after which C23 speaks of the state.
StateChangingCalls ==
    { "renderViewport", "scrollBy", "scrollToTop", "scrollToBottom", "setScrollEnabled" }

\* C23, as stated: after a renderViewport call or a public operation,
\* followOutput is true exactly when scrollTop = getMaxScrollTop(), and
\* 0 <= scrollTop <= getMaxScrollTop().
C23_FollowIffAtBottom ==
    tuiOp \in StateChangingCalls =>
        \A kind \in Kinds :
            /\ tuiPair[kind].followOutput
                   <=> (tuiPair[kind].scrollTop = getMaxScrollTop(tuiPair[kind]))
            /\ 0 <= tuiPair[kind].scrollTop
            /\ tuiPair[kind].scrollTop <= getMaxScrollTop(tuiPair[kind])

\* C24, as stated: in every reachable state in which scrolling is disabled,
\* from any constructor options, scrollTop = 0 and followOutput is true.
C24_DisabledAtRest ==
    tuiOp # "idle" =>
        \A kind \in Kinds :
            ~tuiPair[kind].scrollEnabled =>
                tuiPair[kind].scrollTop = 0 /\ tuiPair[kind].followOutput

\* C25, as stated: the layout over a viewport-aware child and the layout
\* over a render-only child with the same content hold the same scrollTop and
\* followOutput after every sequence of calls, and every renderViewport and
\* render returns the same frame from both, in enabled and in disabled mode.
C25_FallbackEquivalent ==
    tuiOp # "idle" =>
        /\ tuiPair["native"].scrollTop = tuiPair["fallback"].scrollTop
        /\ tuiPair["native"].followOutput = tuiPair["fallback"].followOutput
        /\ tuiFrame # Idle =>
              tuiFrame.out["native"].lines = tuiFrame.out["fallback"].lines

\* The rows [top, top + count) of a content of n rows, blank past its end.
WindowRows(n, top, count) ==
    [k \in 1..count |-> IF top + k <= n THEN OutLine(top + k) ELSE EMPTY_LINE]

\* C26: whenever a frame of an enabled layout changes scrollTop (a snap to
\* the bottom in follow mode, a clamp after the content shrank or the viewport
\* grew), the scrollable rows of the returned frame are the content rows
\* [scrollTop, scrollTop + availableHeight) for the new scrollTop, blank-padded
\* at the end; a viewport-aware child is asked at most twice per frame, the
\* second time for the corrected window.
C26_NoStaleSlice ==
    [][tuiFrame' # Idle =>
          \A kind \in Kinds :
              LET before == tuiPair[kind]
                  after == tuiPair'[kind]
                  out == tuiFrame'.out[kind]
              IN  /\ Len(out.asked) <= 2
                  /\ (before.scrollEnabled /\ after.scrollTop # before.scrollTop) =>
                        /\ SubSeq(out.lines, 1, after.lastAvailableHeight)
                               = WindowRows(tuiFrame'.args.n, after.scrollTop,
                                            after.lastAvailableHeight)
                        /\ kind = "native" =>
                              /\ Len(out.asked) = 2
                              /\ out.asked[1].top = before.scrollTop
                              /\ out.asked[2] = [height |-> after.lastAvailableHeight,
                                                 top |-> after.scrollTop]]_vars

\* A frame whose first request was made at a position that the frame then
\* lowered: the child was asked again, and rows are shown.
C26_Witness ==
    /\ tuiFrame # Idle
    /\ tuiPair["native"].scrollEnabled
    /\ Len(tuiFrame.out["native"].asked) = 2
    /\ tuiFrame.out["native"].asked[2].top < tuiFrame.out["native"].asked[1].top
    /\ tuiPair["native"].scrollTop = tuiFrame.out["native"].asked[2].top
    /\ tuiPair["native"].lastAvailableHeight > 0
    /\ tuiFrame.args.n > 0

\* C27, as stated: for every viewport, in enabled and in disabled mode,
\* renderViewport returns at most viewport.height lines and a contentHeight
\* equal to the scrollable child's row count plus the fixed child's height.
C27_HonoursContract ==
    tuiOp = "renderViewport" =>
        \A kind \in Kinds :
            /\ Len(tuiFrame.out[kind].lines) <= tuiFrame.args.height
            /\ tuiFrame.out[kind].contentHeight = tuiFrame.args.n + tuiFrame.args.f

\* C27, amended: contentHeight is the scrollable child's row count plus the
\* fixed child's height in both modes; an enabled layout returns exactly
\* viewport.height lines; a disabled layout returns the lines its child gave
\* followed by the whole fixed child, however many that is.
C27_ContractWhenEnabled ==
    tuiOp = "renderViewport" =>
        \A kind \in Kinds :
            LET out == tuiFrame.out[kind]
                args == tuiFrame.args
                count == Len(out.lines)
            IN  /\ out.contentHeight = args.n + args.f
                /\ tuiPair[kind].scrollEnabled => count = args.height
                /\ ~tuiPair[kind].scrollEnabled =>
                      /\ count >= args.f
                      /\ SubSeq(out.lines, count - args.f + 1, count) = FixedLines(args.f)
                      /\ kind = "fallback" =>
                            out.lines = OutputLines(args.n) \o FixedLines(args.f)
                      /\ kind = "native" => count <= args.height + args.f

\* A disabled layout returned more lines than the viewport is high, with the
\* true total as contentHeight.
C27_Witness ==
    /\ tuiOp = "renderViewport"
    /\ ~tuiPair["native"].scrollEnabled
    /\ tuiFrame.args.f > 0 /\ tuiFrame.args.n > tuiFrame.args.height
    /\ tuiFrame.args.height > 0
    /\ Len(tuiFrame.out["native"].lines) > tuiFrame.args.height
    /\ Len(tuiFrame.out["fallback"].lines) > tuiFrame.args.height
    /\ tuiFrame.out["native"].contentHeight = tuiFrame.args.n + tuiFrame.args.f

\* ------------------------------------------------- claims on SpecFilter
\* The filter of the call, trimmed and with its context clamped, for a call
\* with a filter.
Given == normalizeOutputFilter(filterIn.filter[1])
\* A call that filters: a filter with a query, whose pattern compiles.
Filtering ==
    /\ filterOut # Idle
    /\ filterIn.filter # Null
    /\ Given.query # << >>
    /\ \/ Given.mode = "text"
       \/ \A k \in 1..Len(Given.query) : Given.query[k] # LBRACKET
\* T of the call.
Total == Min(Len(filterIn.rawLines), Len(filterIn.displayLines))
\* The indices of the matches of the call.
MatchIndices ==
    { j \in 0..(Total - 1) : matcher(Given, filterIn.rawLines[j + 1]) # Given.invert }
\* The indices within contextLines of a match.
NearMatch ==
    { i \in 0..(Total - 1) :
        \E j \in MatchIndices :
            i - j <= Given.contextLines /\ j - i <= Given.contextLines }
\* The display lines at the given indices, in ascending order, each once.
Restricted(indices) ==
    SelectSeq(filterIn.displayLines, LAMBDA line : line[1] - 400 \in indices)

\* C28: for a call with a non-empty query and a valid pattern, matchCount
\* is the number of indices j < T = min(rawLines.length, displayLines.length)
\* where the matcher's verdict on rawLines[j] differs from invert, and
\* result.lines is displayLines restricted, in ascending order and each index
\* once, to the indices within contextLines (clamped to 0..10) of a match.
C28_MatchesAndContext ==
    Filtering =>
        /\ filterOut.result.matchCount = Cardinality(MatchIndices)
        /\ filterOut.result.lines = Restricted(NearMatch)
        /\ Given.contextLines \in 0..MAX_CONTEXT_LINES

\* C28 witness: an inverted filter with context 1 over three raw lines and
\* four display lines, two matches whose contexts overlap, all three shown.
C28_Witness ==
    /\ Filtering
    /\ Given.invert /\ Given.contextLines = 1
    /\ Len(filterIn.rawLines) = 3 /\ Len(filterIn.displayLines) = 4
    /\ MatchIndices = {0, 2}
    /\ filterOut.result.lines = DisplayLines(3)

\* A call in regex mode whose pattern does not compile.
InvalidRegex ==
    /\ filterOut # Idle
    /\ filterIn.filter # Null
    /\ Given.query # << >>
    /\ Given.mode = "regex"
    /\ \E k \in 1..Len(Given.query) : Given.query[k] = LBRACKET
\* A call without a filter, or with a query that is empty after trimming.
NoQuery ==
    /\ filterOut # Idle
    /\ filterIn.filter = Null \/ Given.query = << >>
\* The result that reports an invalid pattern: not filtered, an error text,
\* no match, and the display lines that would have been filtered.
ReportsError(result) ==
    /\ result # Null
    /\ result.filtered = FALSE
    /\ result.error # Null /\ result.error[1] # ""
    /\ result.matchCount = 0
    /\ result.lines = slice(filterIn.displayLines, 0, Total)

\* C29: in regex mode a pattern that does not compile gives a result with
\* filtered = false, a non-empty error, matchCount 0 and the unfiltered
\* display lines; a missing filter or a query that is empty after trimming
\* gives null; in both cases the component shows all display lines.
C29_InvalidRegexReported ==
    /\ InvalidRegex =>
           ReportsError(filterOut.result) /\ filterOut.shown = filterIn.displayLines
    /\ NoQuery =>
           filterOut.result = Null /\ filterOut.shown = filterIn.displayLines

\* The same for blocks with at least one raw line and one display line.
C29_ReportedForNonEmptyBlock ==
    /\ (InvalidRegex /\ Total > 0) =>
           ReportsError(filterOut.result) /\ filterOut.shown = filterIn.displayLines
    /\ NoQuery =>
           filterOut.result = Null /\ filterOut.shown = filterIn.displayLines

\* ------------------------------------------------- claims on SpecSearch
\* The 0-based positions of the line breaks of the searched text.
Breaks == { k \in 0..(Len(searchIn.text) - 1) : searchIn.text[k + 1] = NEWLINE }
\* The position of the i-th line break, i from 1; -1 for i = 0.
BreakAt(i) ==
    IF i = 0 THEN -1
    ELSE CHOOSE k \in Breaks : Cardinality({ j \in Breaks : j < k }) = i - 1
\* The line with 0-based index i of the searched text.
TextLine(i) ==
    LET from == BreakAt(i) + 1
        to == IF i = Cardinality(Breaks) THEN Len(searchIn.text) ELSE BreakAt(i + 1)
    IN  SubSeq(searchIn.text, from + 1, to)
\* The number of lines scanned: all of them, or the first maxScanLines.
ScannedCount ==
    IF searchIn.options.maxScanLines = Null THEN Cardinality(Breaks) + 1
    ELSE Min(Cardinality(Breaks) + 1, searchIn.options.maxScanLines[1])
\* Whether a line contains the trimmed query, in the case rule of the call.
Contains(line) ==
    IF searchIn.options.caseSensitive = Some(TRUE)
    THEN includes(line, trim(searchIn.query))
    ELSE includes(toLowerCase(line), toLowerCase(trim(searchIn.query)))
\* The indices of the scanned lines that contain the query.
HitIndices == { i \in 0..(ScannedCount - 1) : Contains(TextLine(i)) }
\* maxResults of the call.
ResultLimit ==
    IF searchIn.options.maxResults = Null THEN 200
    ELSE searchIn.options.maxResults[1]

\* C30: for a non-blank query totalMatches is the number of scanned lines
\* that contain the trimmed query (case-insensitively unless caseSensitive),
\* and results holds the first min(totalMatches, maxResults) of them in
\* ascending order, each with its 0-based lineIndex and its line; a query
\* that is blank after trimming gives no results, 0 scanned lines and
\* truncated = false.
C30_SearchResults ==
    searchOut # Idle =>
        IF trim(searchIn.query) = << >>
        THEN /\ searchOut.results = << >>
             /\ searchOut.scannedLines = 0
             /\ searchOut.truncated = FALSE
        ELSE /\ searchOut.totalMatches = Cardinality(HitIndices)
             /\ Len(searchOut.results) = Min(searchOut.totalMatches, ResultLimit)
             /\ \A k \in 1..Len(searchOut.results) :
                    LET result == searchOut.results[k]
                    IN  /\ result.lineIndex \in HitIndices
                        /\ Cardinality({ i \in HitIndices : i < result.lineIndex }) = k - 1
                        /\ result.line = TextLine(result.lineIndex)

\* C30 witness: a search without regard to case over three scanned lines, of
\* which the first and the third contain the query, limited to one result.
C30_Witness ==
    /\ searchOut # Idle
    /\ searchIn.options.caseSensitive # Some(TRUE)
    /\ searchIn.options.maxResults = Some(1)
    /\ HitIndices = {0, 2}
    /\ searchOut.totalMatches = 2
    /\ Len(searchOut.results) = 1 /\ searchOut.results[1].lineIndex = 0
    /\ searchOut.results[1].line # trim(searchIn.query)

\* The number of lines of the searched text.
LineCount == Cardinality(Breaks) + 1
\* A finished search with a query that is not blank.
Searched == searchOut # Idle /\ trim(searchIn.query) # << >>

\* C31: scannedLines is min(number of lines, maxScanLines), no line past the
\* limit counts as a match, and truncated is true exactly when a line of the
\* text was left unscanned.
C31_ScanLimitFaithful ==
    Searched =>
        /\ searchOut.scannedLines = ScannedCount
        /\ searchOut.totalMatches = Cardinality(HitIndices)
        /\ \A k \in 1..Len(searchOut.results) :
               searchOut.results[k].lineIndex < ScannedCount
        /\ searchOut.truncated <=> (ScannedCount < LineCount)

\* The same without the last conjunct, and truncated whenever a line was
\* left unscanned.
C31_ScanLimitRespected ==
    Searched =>
        /\ searchOut.scannedLines = ScannedCount
        /\ searchOut.totalMatches = Cardinality(HitIndices)
        /\ \A k \in 1..Len(searchOut.results) :
               searchOut.results[k].lineIndex < ScannedCount
        /\ (ScannedCount < LineCount) => searchOut.truncated

\* truncated is also true when every line was scanned and the last line is
\* not empty.
C31_TruncatedOnOpenLastLine ==
    (Searched /\ ScannedCount = LineCount) =>
        (searchOut.truncated <=> TextLine(LineCount - 1) # << >>)

\* ------------------------------------------------ claims on SpecPalette
NavigationKeys == {"selectUp", "selectDown", "j", "k"}
ConfirmKeys == {"selectConfirm", "\n"}
\* The keys that handleInput gives to the filter input.
ForwardedKeys == PaletteKeys \ (NavigationKeys \cup ConfirmKeys \cup {"selectCancel"})
\* The items that match the filter text, all items for a blank text.
Matching(self) ==
    IF trim(self.value) = << >> THEN self.items
    ELSE SelectSeq(self.items,
                   LAMBDA item : fuzzyMatch(trim(self.value), item.label \o << SPACE >>))
\* After every key: the selection is an index of the filtered list; a confirm
\* key has called onSelect once with the selected item, or not at all for an
\* empty list; a forwarded key has left the matching items and selection 0.
PaletteSettled ==
    palette # Idle =>
        /\ palette.filteredItems # << >> =>
               (0 <= palette.selectedIndex
                /\ palette.selectedIndex < Len(palette.filteredItems))
        /\ paletteKey \in ConfirmKeys =>
               paletteCalls.onSelect =
                   IF palette.filteredItems = << >> THEN << >>
                   ELSE << palette.filteredItems[palette.selectedIndex + 1] >>
        /\ paletteKey \notin ConfirmKeys \cup {"new"} => paletteCalls.onSelect = << >>
        /\ paletteKey \in ForwardedKeys =>
               (palette.selectedIndex = 0 /\ palette.filteredItems = Matching(palette))
        /\ \A k \in 1..Len(palette.value) : palette.value[k] \notin {LOWER_J, LOWER_K}
\* A step for the key j or k moves the selection by one within the list and
\* leaves the filter text and the filtered list.
LettersNavigate ==
    paletteKey' \in {"j", "k"} =>
        /\ palette'.value = palette.value
        /\ palette'.filteredItems = palette.filteredItems
        /\ palette'.selectedIndex =
               IF palette.filteredItems = << >> THEN palette.selectedIndex
               ELSE IF paletteKey' = "k" THEN Max(0, palette.selectedIndex - 1)
               ELSE Min(Len(palette.filteredItems) - 1, palette.selectedIndex + 1)

\* C32: after any sequence of keys the selected index is within a non-empty
\* filtered list; a confirm key calls onSelect exactly once, with
\* filteredItems[selectedIndex], and never for an empty list; every key
\* forwarded to the filter input recomputes the filtered list and puts the
\* selection at 0; j and k always navigate and never reach the filter text.
C32_PaletteSelection == []PaletteSettled /\ [][LettersNavigate]_vars

\* C32 witness: with a filter text that leaves several items, the second one
\* selected, a confirm key has called onSelect with it.
C32_Witness ==
    /\ palette # Idle
    /\ paletteKey = "\n"
    /\ trim(palette.value) # << >>
    /\ Len(palette.filteredItems) >= 2
    /\ Len(palette.filteredItems) < Len(palette.items)
    /\ palette.selectedIndex = 1
    /\ paletteCalls.onSelect = << palette.filteredItems[2] >>

\* ------------------------------------------------ claims on SpecActions
\* A palette with items and maxVisible >= 1.
Listed ==
    /\ actionPalette # Idle
    /\ actionPalette.length > 0
    /\ actionPalette.maxVisible >= 1
\* The item rows in the list are consecutive indices.
Consecutive(shown) == \A k \in 1..(Len(shown) - 1) : shown[k + 1] = shown[k] + 1

\* The list of a palette with items and maxVisible >= 1 shows consecutive
\* items, the selected one among them, min(maxVisible, items.length) in all;
\* the indicator is there exactly for items.length > maxVisible and reads
\* (selectedIndex + 1 / items.length).
WindowHolds ==
    Listed =>
        LET list == actionPalette.list
        IN  /\ Consecutive(list.rows)
            /\ \E k \in 1..Len(list.rows) : list.rows[k] = actionPalette.selectedIndex
            /\ list.selected = {actionPalette.selectedIndex}
            /\ Len(list.rows) = Min(actionPalette.maxVisible, actionPalette.length)
            /\ list.indicator # Null <=> actionPalette.length > actionPalette.maxVisible
            /\ list.indicator # Null =>
                   list.indicator[1] = [k |-> actionPalette.selectedIndex + 1,
                                        total |-> actionPalette.length]
\* Up and down move the selection by one and stay at the first and the last
\* item.
Saturates ==
    (actionPalette.length > 0) =>
        /\ actionKey' \in {"selectUp", "k"} =>
               actionPalette'.selectedIndex =
                   IF actionPalette.selectedIndex = 0 THEN 0
                   ELSE actionPalette.selectedIndex - 1
        /\ actionKey' \in {"selectDown", "j"} =>
               actionPalette'.selectedIndex =
                   IF actionPalette.selectedIndex = actionPalette.length - 1
                   THEN actionPalette.length - 1
                   ELSE actionPalette.selectedIndex + 1

\* C33: for maxVisible >= 1 and a non-empty item list, after any sequence of
\* up and down keys the rendered window contains selectedIndex and has
\* min(maxVisible, items.length) entries; the indicator (k/total) is rendered
\* exactly when items.length > maxVisible, with k = selectedIndex + 1; up and
\* down saturate at the first and the last item.
C33_ListWindow == []WindowHolds /\ [][Saturates]_vars

\* C33 witness: the last of four items selected by a down key that no longer
\* moves the window of two, with the indicator (4/4).
C33_Witness ==
    /\ Listed
    /\ actionKey = "j"
    /\ actionPalette.length = 4 /\ actionPalette.maxVisible = 2
    /\ actionPalette.selectedIndex = 3
    /\ actionPalette.list.rows = << 2, 3 >>
    /\ actionPalette.list.indicator = Some([k |-> 4, total |-> 4])

\* -------------------------------------------------- claims on SpecChips
\* The width the chips may take.
ChipColumns == Max(1, chipsIn.width - 2)
\* The chips in one line, a space between two.
RECURSIVE Joined(_)
Joined(chips) ==
    IF Len(chips) <= 1 THEN (IF chips = << >> THEN << >> ELSE chips[1].text)
    ELSE chips[1].text \o << SPACE >> \o Joined(Tail(chips))
Overflowing == Len(Joined(chipsIn.chips)) > ChipColumns
SomePriority == \E k \in 1..Len(chipsIn.chips) : chipsIn.chips[k].priority
\* The chips with priority in their order, then the others in theirs.
PriorityFirst ==
    SelectSeq(chipsIn.chips, LAMBDA chip : chip.priority)
        \o SelectSeq(chipsIn.chips, LAMBDA chip : ~chip.priority)
\* The column after the k-th chip of a list of chips in one line.
EndColumn(chips, k) == Len(Joined(SubSeq(chips, 1, k)))
\* The text of the rendered line after its left padding.
Shown == slice(chipsOut.lines[1], 1, Len(chipsOut.lines[1]))
\* Whether the k-th chip of the list is in the rendered line, at its place.
Visible(chips, k) ==
    slice(Shown, EndColumn(chips, k) - Len(chips[k].text), EndColumn(chips, k))
        = chips[k].text
\* With the columns given to the chips: no line for no chips and one line
\* otherwise; chips that fit are shown in their order; of chips that do not
\* fit, when one has priority, every chip with priority that ends within the
\* columns is shown, the chips with priority placed first.
ChipsShownWithin(columns) ==
    chipsOut # Idle =>
        /\ Len(chipsOut.lines) = (IF chipsIn.chips = << >> THEN 0 ELSE 1)
        /\ (chipsIn.chips # << >> /\ ~Overflowing) =>
               slice(Shown, 0, Len(Joined(chipsIn.chips))) = Joined(chipsIn.chips)
        /\ (Overflowing /\ SomePriority) =>
               \A k \in 1..Len(PriorityFirst) :
                   (PriorityFirst[k].priority /\ EndColumn(PriorityFirst, k) <= columns)
                       => Visible(PriorityFirst, k)

\* C34: render returns no line for an empty chip list and exactly one line
\* otherwise; when the joined chips exceed the available width and some chip
\* has priority, the priority chips are placed before the others, in their
\* order, before truncation, so that every priority chip that fits in the
\* available width remains in the line; chips that fit keep their order.
C34_PriorityChipsVisible == ChipsShownWithin(ChipColumns)

\* The same for the priority chips that end three columns before the
\* available width.
C34_VisibleBeforeEllipsis == ChipsShownWithin(ChipColumns - 3)

\* ---------------------------------------------------- claims on SpecVim
Pending(self) ==
    self.operator # "" \/ self.count > 0 \/ self.pendingG \/ self.pendingR

StartsInInsert == vimKey = "new" => vim.mode = "insert"

\* Escape outside normal mode switches to normal mode and stays in the editor.
EscapeLeavesMode ==
    (vimKey' = "escape" /\ vim.mode \in {"insert", "visual", "visual-line"})
        => (vim'.mode = "normal" /\ vim'.escape = "mode")

\* Escape in normal mode goes to the app whatever is pending.
EscapeAlwaysAborts ==
    (vimKey' = "escape" /\ vim.mode = "normal") => vim'.escape = "app"

\* Escape in normal mode goes to the app when nothing is pending, and
\* otherwise only drops what is pending.
EscapeAbortsWhenSettled ==
    (vimKey' = "escape" /\ vim.mode = "normal")
        => /\ vim'.mode = "normal"
           /\ ~Pending(vim')
           /\ vim'.escape = (IF Pending(vim) THEN "reset" ELSE "app")
           /\ Pending(vim) => (vim'.lines = vim.lines /\ vim'.cursor = vim.cursor)

ChangeByMotion ==
    /\ vim.mode = "normal" /\ vim.operator = "c"
    /\ ~vim.pendingG /\ ~vim.pendingR
    /\ vimHandled' = vimHandled + 1
    /\ \/ vimKey' \in MotionKeys \ {"0"}
       \/ vimKey' = "0" /\ vim.count = 0
       \/ vimKey' = "c"

\* The step gives the normal-mode editor, with c and g pending, the second g.
ChangeToStart ==
    /\ vim.mode = "normal" /\ vim.operator = "c"
    /\ vim.pendingG /\ ~vim.pendingR
    /\ vimHandled' = vimHandled + 1
    /\ vimKey' = "g"

\* The number of characters of the text, line breaks included.
TextLength(lines) == Len(joinLines(lines))

ChangeDone ==
    /\ vim'.mode = "insert"
    /\ vim'.operator = "" /\ vim'.count = 0
    /\ vimKey' # "c" => TextLength(vim'.lines) <= TextLength(vim.lines)

\* C36 as stated: in normal mode, c with any supported motion (h, j, k, l, w,
\* b, e, 0, $, ^, gg, G) or doubled (cc) deletes the addressed text and
\* leaves the editor in insert mode with no pending operator or count.
C36_ChangeEndsInInsert == [][(ChangeByMotion \/ ChangeToStart) => ChangeDone]_vars

\* C36, the motions of one key and cc: the text is deleted and the editor is
\* in insert mode with nothing pending.
C36_ChangeByMotionEndsInInsert == [][ChangeByMotion => ChangeDone]_vars

\* C36, cgg: the text up to the cursor is deleted into the register and the
\* editor is in normal mode with nothing pending.
C36_ChangeToStartStaysNormal ==
    [][ChangeToStart =>
          /\ vim'.mode = "normal"
          /\ vim'.operator = "" /\ vim'.count = 0 /\ ~vim'.pendingG
          /\ TextLength(vim'.lines) + Len(vim'.register) = TextLength(vim.lines)]_vars

\* The step gives the normal-mode editor, with y pending, a motion key or
\* the second y, or gives y to the editor in a visual mode.
YankByMotion ==
    /\ vimHandled' = vimHandled + 1
    /\ ~vim.pendingR
    /\ \/ /\ vim.mode = "normal" /\ vim.operator = "y" /\ ~vim.pendingG
          /\ \/ vimKey' \in MotionKeys \ {"0"}
             \/ vimKey' = "0" /\ vim.count = 0
             \/ vimKey' = "y"
       \/ vim.mode \in {"visual", "visual-line"} /\ vimKey' = "y"

\* The step gives the normal-mode editor, with y and g pending, the second g.
YankToStart ==
    /\ vim.mode = "normal" /\ vim.operator = "y"
    /\ vim.pendingG /\ ~vim.pendingR
    /\ vimHandled' = vimHandled + 1
    /\ vimKey' = "g"

YankDone ==
    /\ vim'.lines = vim.lines
    /\ vim'.mode = "normal"
    /\ vim.mode # "normal" => vim'.register = getSelectedText(vim)

\* C37 as stated: in normal mode, y with any supported motion (h, j, k, l, w,
\* b, e, 0, $, ^, gg, G) or doubled (yy), and y in visual or visual-line
\* mode, stores the addressed text in the register and leaves the buffer
\* text unchanged, ending in normal mode.
C37_YankIsCopy == [][(YankByMotion \/ YankToStart) => YankDone]_vars

\* C37, the motions of one key, yy and the visual modes: the buffer text is
\* unchanged and the editor is in normal mode.
C37_YankByMotionIsCopy == [][YankByMotion => YankDone]_vars

\* C37, ygg: the text from the start of the document to the cursor, the
\* character under the cursor included, goes to the register and leaves the
\* buffer.
C37_YankToStartDeletes ==
    [][YankToStart =>
          /\ vim'.mode = "normal"
          /\ Len(vim'.register) >= 1 \/ lineOr(vim.lines, vim.cursor.line) = << >>
          /\ TextLength(vim'.lines) + Len(vim'.register) = TextLength(vim.lines)]_vars

\* ------------------------------------------------ claims on SpecEditDiff
ArgsComplete(args) ==
    args.path # Null /\ args.oldText # Null /\ args.newText # Null

\* The diff is the one of the args.
PreviewOf(preview, args) ==
    ArgsComplete(args) /\ preview = Some(computeEditDiff(argsKeyOf(args)))

\* C38 as stated: an edit diff computed asynchronously is stored and
\* displayed only if the current args (path, oldText, newText) are the ones
\* its computation was started for, for every interleaving of updateArgs,
\* setArgsComplete and completions.
C38_PreviewNeverStale ==
    /\ tool.editDiffPreview # Null => PreviewOf(tool.editDiffPreview, tool.args)
    /\ tool.display.preview # Null => PreviewOf(tool.display.preview, tool.args)

\* C38, what the callback guarantees: a result is stored only while the
\* args of the latest computation started are the ones it was computed for.
C38_StoredForLatestStart ==
    [][tool'.editDiffPreview # tool.editDiffPreview
          => /\ toolOp' = "editDiffComputed"
             /\ tool.editDiffArgsKey # Null
             /\ tool'.editDiffPreview = Some(computeEditDiff(tool.editDiffArgsKey[1]))
             /\ tool'.display.preview = tool'.editDiffPreview]_vars

\* C38, the completions that arrive late: a computation started for other
\* args than the latest one leaves the preview as it is.
C38_LateCompletionDropped ==
    [][\A computation \in toolFlight :
          (toolFlight' = toolFlight \ {computation}
           /\ toolOp' = "editDiffComputed"
           /\ tool.editDiffArgsKey # Some(computation.argsKey))
              => tool'.editDiffPreview = tool.editDiffPreview]_vars

\* ---------------------------------------------- claims on SpecToolOutput
\* The lines the display is built from, as the component is now.
CurrentRawLines == outputLines(tool)[1]
CurrentDisplayLines == [k \in 1..Len(CurrentRawLines) |-> styled(CurrentRawLines[k])]

\* The display was built with the result of the filter.
FilterConsulted == tool.display.filtering /\ outputLines(tool) # Null

\* applyOutputFilter on the current lines with the current filter.
FreshFilterResult ==
    getOutputFilterResult(CurrentRawLines, CurrentDisplayLines, tool.outputFilter)

\* C40 as stated: after any sequence of updateArgs, updateResult,
\* setOutputFilter, setExpanded, setShowImages and invalidate, the filter
\* result used to build the display is applyOutputFilter of the current raw
\* lines, display lines and normalized filter; a cached result is never
\* reused after its lines have changed.
C40_FilterResultCurrent ==
    FilterConsulted => tool.display.filterResult = FreshFilterResult

\* The output holds no image, or no terminal draws one.
LinesFixedByResult == tool.result # Null /\ (tool.result[1].images = 0 \/ ~tool.capsImages)

\* C40, for output whose lines depend on the result only: the filter result
\* used is the one of the current lines and filter.
C40_CurrentWithoutImages ==
    (FilterConsulted /\ LinesFixedByResult)
        => tool.display.filterResult = FreshFilterResult

\* C40, the cache: a cached result belongs to the current output version,
\* and updateArgs, updateResult and setOutputFilter leave a result in the
\* cache only if they computed it.
C40_CacheOfCurrentVersion ==
    tool.outputFilterCache # Null
        => /\ tool.outputFilterCache[1].outputVersion = tool.outputVersion
           /\ tool.outputFilter # Null
           /\ tool.outputFilterCache[1].filterKey
                  = normalizeOutputFilter(tool.outputFilter[1])
           /\ toolOp \in {"updateArgs", "updateResult", "setOutputFilter"}
                  => tool.outputFilterCache[1].result = FreshFilterResult

\* --------------------------------------------- claims on SpecBlockSearch
\* The keys handleInput gives to the query input.
ForwardedToQuery == {"submit", "backspace", "a", "b"}

\* At most one timer is pending, and it is the one of searchTimer.
OneTimer ==
    /\ Cardinality(blockSearch.timers) <= 1
    /\ \A t \in blockSearch.timers : blockSearch.searchTimer = Some(t.id)

\* A key given to the query input leaves one timer, due after the full delay.
DelayRestarted ==
    blockSearchOp' \in ForwardedToQuery
        => \E t \in blockSearch'.timers :
              /\ blockSearch'.timers = {t}
              /\ t.remaining = SEARCH_DELAY
              /\ t.id = blockSearch'.timerCount

\* A search runs only when a timer fires, with the query typed last, and
\* leaves no timer.
SearchesFinalQuery ==
    (blockSearch'.searched /\ blockSearchOp' # "new")
        => /\ blockSearchOp' = "timer"
           /\ blockSearch'.lastQuery = blockSearch'.value
           /\ blockSearch'.timers = {}

\* The step calls onSelect or onCancel.
Closes ==
    \/ blockSearch'.selected # blockSearch.selected
    \/ blockSearch'.cancelled # blockSearch.cancelled

OneTimerNoneClosed == OneTimer /\ (Closed => blockSearch.timers = {})

\* C39 as stated: at most one search timer is pending at any time, each key
\* forwarded to the query input restarts the 120 ms delay, a burst of keys
\* causes one search with the final query, and once onCancel or onSelect has
\* been called (by the cancel key, the confirm key or the input's submit
\* callback) no timer is pending.
C39_DebounceAndQuietClose ==
    []OneTimerNoneClosed /\ [][DelayRestarted /\ SearchesFinalQuery]_vars

\* C39, the debounce: at most one timer, restarted by every key given to the
\* query input, and one search with the final query when it fires.
C39_Debounce == []OneTimer /\ [][DelayRestarted /\ SearchesFinalQuery]_vars

\* C39, the cancel and confirm keys: no timer is pending after the call of
\* onCancel or onSelect.
C39_QuietAfterCancelOrConfirm ==
    [][(Closes /\ blockSearchOp' # "submit") => blockSearch'.timers = {}]_vars

\* C39, the submit of the query input: onSelect has been called and a timer
\* is pending with the full delay.
C39_TimerLeftBySubmit ==
    [][(Closes /\ blockSearchOp' = "submit")
          => /\ blockSearch'.selected = 1
             /\ \E t \in blockSearch'.timers : t.remaining = SEARCH_DELAY]_vars

====
